---- MODULE Spec2Model ----
(***************************************************************************)
(* Trace/log correlation engine of the tracing package: depth and policy   *)
(* engine, context carrier, TracerBuilder.Trace and the two correlation    *)
(* wrappers (loggingSpan, spanLogger).                                     *)
(*                                                                         *)
(* Contexts are immutable values kept in a store (ctxs); a context is      *)
(* named by its index.  Every Trace call reads one context and adds one.   *)
(***************************************************************************)
EXTENDS Integers, Sequences, FiniteSets, TLC

VARIABLES
  globalTp,      \* otel's global TracerProvider (GetGlobalTracerProvider)
  globalLogger,  \* package variable logger (GetGlobalLogger)
  ctxs,          \* store of context values, index = context identity
  spans,         \* one record per Trace call, index = span identity
  logOut,        \* records written by the logging backend, in order
  exported,      \* span operations that reached a non no-op provider, in order
  calls,         \* the calls the instrumented code made on spans and loggers, in order
  fn,            \* input and result of a pure function (SpecFn, SpecSdk)
  slogs,         \* heap of spanLogger objects (SpecLog)
  arrays,        \* heap of the backing arrays of their keysAndValues slices
  reg            \* the acquire function, the two mutexes and the goroutines
                 \* calling the registry (SpecReg)

vars == <<globalTp, globalLogger, ctxs, spans, logOut, exported, calls, fn, slogs, arrays,
          reg>>

----------------------------------------------------------------------------
(* Bounds of the model *)

MaxSpans == 4      \* Trace calls in one behaviour of Spec
MaxUpto == 1       \* highest LogUpto level a zap logger is built with
MaxN == 2          \* highest n of NthLogLevelIncrease(n) attached to a context
MaxK == 1          \* highest maxDepth of MaxDepthEnabler

----------------------------------------------------------------------------
(* Loggers.  A logr.Logger value: the discard logger, or a zap-backed one  *)
(* with its accumulated V level, the level it logs up to, and its name.    *)

NoLogger == [kind |-> "nil", level |-> 0, upto |-> 0, name |-> "", values |-> <<>>]
Discard == [kind |-> "discard", level |-> 0, upto |-> 0, name |-> "", values |-> <<>>]
ZapLogger(upto) ==
  [kind |-> "zap", level |-> 0, upto |-> upto, name |-> "", values |-> <<>>]

\* Logger.Enabled(): the discard logger is never enabled; a zap logger is
\* enabled when its V level is at or below the level it logs up to.
Enabled(log) == log.kind = "zap" /\ log.level <= log.upto

\* Logger.V(level): adds to the verbosity; the discard logger returns itself.
V(log, level) ==
  IF log.kind = "zap" THEN [log EXCEPT !.level = log.level + level] ELSE log

\* Logger.WithValues(kv...); the discard logger returns itself.
WithValues(log, keysAndValues) ==
  IF log.kind = "zap" THEN [log EXCEPT !.values = @ \o keysAndValues] ELSE log

\* Logger.WithName(name); the discard logger returns itself.
WithName(log, name) ==
  IF log.kind = "zap"
  THEN [log EXCEPT !.name = IF log.name = "" THEN name ELSE log.name \o "." \o name]
  ELSE log

isDiscard(log) == log = Discard

----------------------------------------------------------------------------
(* Providers *)

NoopTracerProvider == [kind |-> "noop", home |-> "noop", enabler |-> "always", maxDepth |-> 0]

SDKProvider(home, enabler, k) ==
  [kind |-> "sdk", home |-> home, enabler |-> enabler, maxDepth |-> k]

NoProvider == [kind |-> "nil", home |-> "nil", enabler |-> "always", maxDepth |-> 0]

\* The providers TracerProviderBuilder can build for one home (global or context)
BuiltProviders(home) ==
  {SDKProvider(home, "always", 0), SDKProvider(home, "logger", 0)}
    \cup {SDKProvider(home, "maxdepth", k) : k \in 0..MaxK}

IsNoop(tp) == tp.kind = "noop"

\* MaxDepthEnabler with a strict comparison (maxDepth itself excluded)
MaxDepthEnabler_Strict(maxDepth, cfg) == cfg.Depth < maxDepth

MaxDepthEnabler(maxDepth, cfg) == cfg.Depth <= maxDepth

\* LoggerEnabler without the exception for the discard logger
LoggerEnabler_NoDiscard(cfg) == Enabled(cfg.Logger)

LoggerEnabler(cfg) == Enabled(cfg.Logger) \/ isDiscard(cfg.Logger)

\* TracerProvider.Enabled: enablerProvider asks its enabler; a provider
\* without one (upstreamConverter with no enabler below it) says true.
ProviderEnabled(tp, cfg) ==
  CASE tp.enabler = "maxdepth" -> MaxDepthEnabler(tp.maxDepth, cfg)
    [] tp.enabler = "logger" -> LoggerEnabler(cfg)
    [] OTHER -> TRUE

----------------------------------------------------------------------------
(* Depth and log level policy *)

NoDepth == -1

NoLLI == [kind |-> "nil", n |-> 0]
NoLogLevelIncrease == [kind |-> "no", n |-> 0]
NthLogLevelIncrease(n) == [kind |-> "nth", n |-> n]

\* getDepth returning the carried depth unchanged (the + 1 forgotten)
getDepth_NoIncrement(ctx, isNewRoot) ==
  IF isNewRoot THEN 0
  ELSE IF ctx.depth = NoDepth THEN 0
  ELSE ctx.depth

\* getDepth without the new-root test
getDepth_IgnoreNewRoot(ctx, isNewRoot) ==
  IF ctx.depth = NoDepth THEN 0 ELSE ctx.depth + 1

getDepth(ctx, isNewRoot) ==
  IF isNewRoot THEN 0
  ELSE IF ctx.depth = NoDepth THEN 0
  ELSE ctx.depth + 1

withDepth(ctx, depth) == [ctx EXCEPT !.depth = depth]

getLogLevelIncreaser(ctx) ==
  IF ctx.lli # NoLLI THEN ctx.lli ELSE NthLogLevelIncrease(1)

\* NthLogLevelIncrease without the depth-0 exception
GetVIncrease_ZeroDepth(lli, depth) ==
  IF lli.kind = "no" THEN 0
  ELSE IF depth % lli.n = 0 THEN 1
  ELSE 0

GetVIncrease(lli, depth) ==
  IF lli.kind = "no" THEN 0
  ELSE IF depth = 0 THEN 0
  ELSE IF depth % lli.n = 0 THEN 1
  ELSE 0

----------------------------------------------------------------------------
(* Context carrier *)

\* context.Background(): no logger, no depth, no increaser, no span
Background ==
  [depth |-> NoDepth, logger |-> NoLogger, lli |-> NoLLI,
   spanTp |-> NoopTracerProvider, span |-> 0]

GetGlobalTracerProvider == globalTp

GetGlobalLogger == globalLogger

MaxProcs == 2      \* goroutines calling the registry at the same time

Mutexes == {"acquireLoggerFuncMu", "loggerMu"}

\* The package variables of the logger registry next to logger (which is
\* globalLogger): acquireLoggerFunc and the holder of each mutex (0: not
\* locked); procs is the call stack of each goroutine.  done, loggerSets,
\* funcSets and started are bookkeeping, not read by the program: the calls
\* that returned, the values written by the Set functions in the order of
\* the writes, and the number of calls started.
RegInit ==
  [acquireLoggerFunc |-> "DefaultAcquireLoggerFunc",
   mu |-> [m \in Mutexes |-> 0],
   procs |-> [p \in 1..MaxProcs |-> <<>>],
   done |-> <<>>, loggerSets |-> <<>>, funcSets |-> <<>>, started |-> 0]

DefaultAcquireLoggerFunc(ctx) ==
  IF ctx.logger # NoLogger THEN ctx.logger ELSE GetGlobalLogger

LoggerFromContext(ctx) == DefaultAcquireLoggerFunc(ctx)

\* TracerProviderFromContext without the fallback to the global provider
TracerProviderFromContext_NoFallback(ctx) == ctx.spanTp

\* The provider of the span in the context unless it is a no-op one
TracerProviderFromContext(ctx) ==
  IF ~IsNoop(ctx.spanTp) THEN ctx.spanTp ELSE GetGlobalTracerProvider

contextWithTracerProvider(ctx, tp) == [ctx EXCEPT !.spanTp = tp]
contextWithLogger(ctx, log) == [ctx EXCEPT !.logger = log]
withLogLevelIncreaser(ctx, lli) == [ctx EXCEPT !.lli = lli]

\* ContextBuilder.Build from context.Background()
ContextBuild(tp, log, lli) ==
  LET c0 == Background
      c1 == IF tp # NoProvider THEN contextWithTracerProvider(c0, tp) ELSE c0
      c2 == IF log # NoLogger THEN contextWithLogger(c1, log) ELSE c1
      c3 == IF lli # NoLLI THEN withLogLevelIncreaser(c2, lli) ELSE c2
  IN c3

----------------------------------------------------------------------------
(* Span and logger names *)

\* The actors of the model are strings or nil (""), which tracerName
\* returns verbatim.
tracerName(actor) == actor

\* fmtSpanName without the placeholder for two empty names
fmtSpanName_NoPlaceholder(tName, spanName) ==
  IF tName # "" /\ spanName # "" THEN tName \o "." \o spanName
  ELSE tName \o spanName

fmtSpanName(tName, spanName) ==
  IF tName # "" /\ spanName # "" THEN tName \o "." \o spanName
  ELSE IF tName \o spanName # "" THEN tName \o spanName
  ELSE "<unnamed_span>"

----------------------------------------------------------------------------
(* Attribute projection between the two channels *)

SpanAttributePrefix == "span-attr-"
LogAttributePrefix == "log-attr-"

\* Values of Go's interface{} in key/value lists, with their dynamic type
Str(s) == [t |-> "string", v |-> s]

\* attribute.Value.AsInterface: the Go value an attribute value holds
AsInterface(value) ==
  CASE value.t = "STRING" -> [t |-> "string", v |-> value.v]
    [] value.t = "BOOL" -> [t |-> "bool", v |-> value.v]
    [] value.t = "INT64" -> [t |-> "int64", v |-> value.v]
    [] value.t = "FLOAT64" -> [t |-> "float64", v |-> value.v]
    [] OTHER -> [t |-> "nil", v |-> ""]

\* kvListToLogAttrs: a list of span attributes as a flat key/value list
\* for the logger, every key prefixed
RECURSIVE kvListToLogAttrs(_)
kvListToLogAttrs(kv) ==
  IF kv = <<>> THEN <<>>
  ELSE <<Str(SpanAttributePrefix \o Head(kv).key), AsInterface(Head(kv).value)>>
         \o kvListToLogAttrs(Tail(kv))

\* attribute.Any(key, value): the attribute of the value's dynamic type
AttrAny(key, value) ==
  [key |-> key,
   value |-> CASE value.t = "string" -> [t |-> "STRING", v |-> value.v]
               [] value.t = "bool" -> [t |-> "BOOL", v |-> value.v]
               [] value.t \in {"int", "int64"} -> [t |-> "INT64", v |-> value.v]
               [] value.t = "float64" -> [t |-> "FLOAT64", v |-> value.v]
               [] OTHER -> [t |-> "STRING", v |-> "<nil>"]]

\* The zero attribute.KeyValue a slot of make([]attribute.KeyValue, n) holds
ZeroKeyValue == [key |-> "", value |-> [t |-> "INVALID", v |-> ""]]

\* keysAndValuesToAttrs: nil for a list of odd length; otherwise one slot
\* per pair, filled when the key is a string and left zero when it is not
keysAndValuesToAttrs(keysAndValues) ==
  IF Len(keysAndValues) % 2 # 0 THEN <<>>
  ELSE [i \in 1..(Len(keysAndValues) \div 2) |->
          IF keysAndValues[2 * i - 1].t = "string"
          THEN AttrAny(LogAttributePrefix \o keysAndValues[2 * i - 1].v,
                   keysAndValues[2 * i])
          ELSE ZeroKeyValue]

----------------------------------------------------------------------------
(* The logging backend *)

LogRecord(log, span, kind, msg, kv) ==
  [logger |-> log.name, v |-> log.level, span |-> span, kind |-> kind,
   msg |-> msg, kv |-> log.values \o kv]

\* Logger.Info writes one record when the logger is enabled at its level
LogInfo(out, log, span, msg, kv) ==
  IF Enabled(log) THEN Append(out, LogRecord(log, span, "info", msg, kv)) ELSE out

\* Logger.Error writes one record unless V() raised the level above the
\* level the logger logs up to
LogError(out, log, span, err, msg, kv) ==
  IF Enabled(log)
  THEN Append(out, LogRecord(log, span, "error", msg, <<Str("error"), Str(err)>> \o kv))
  ELSE out

----------------------------------------------------------------------------
(* TracerBuilder.Trace *)

\* tracer.Start on the provider that is left after the enabler was asked:
\* an SDK provider records the span, the no-op provider does nothing.
\* logged is bookkeeping, not read by the program: the number of log
\* records written before the operation reached the span.
TracerStart(exp, logged, tp, span, name, attrs) ==
  IF tp.kind = "sdk"
  THEN Append(exp, [span |-> span, tp |-> tp, op |-> "Start", arg |-> attrs,
                    name |-> name, logged |-> logged])
  ELSE exp

TraceConfig(ctx, actor, fnName, isNewRoot) ==
  [TracerName |-> tracerName(actor),
   FuncName |-> fnName,
   Provider |-> TracerProviderFromContext(ctx),
   Depth |-> getDepth(ctx, isNewRoot),
   Logger |-> LoggerFromContext(ctx),
   LogLevelIncreaser |-> getLogLevelIncreaser(ctx)]

SpanName(cfg) == fmtSpanName(cfg.TracerName, cfg.FuncName)

\* IncreaseLevel raising the logger of this span only, the context keeping
\* the logger it had
IncreaseLevel_NotRegistered(ctx, cfg) ==
  LET addLevel == GetVIncrease(cfg.LogLevelIncreaser, cfg.Depth)
  IN IF addLevel # 0
     THEN <<ctx, [cfg EXCEPT !.Logger = V(cfg.Logger, addLevel)]>>
     ELSE <<ctx, cfg>>

\* The log level increase of Trace: the increaser is asked, and when it
\* says so the logger is raised and registered with the context, so that
\* the calls below start from the raised level.  Gives <<ctx, cfg>>.
IncreaseLevel(ctx, cfg) ==
  LET addLevel == GetVIncrease(cfg.LogLevelIncreaser, cfg.Depth)
  IN IF addLevel # 0
     THEN <<contextWithLogger(ctx, V(cfg.Logger, addLevel)),
            [cfg EXCEPT !.Logger = V(cfg.Logger, addLevel)]>>
     ELSE <<ctx, cfg>>

\* DeriveContext writing the new values into the given context as well
DeriveContext_InPlace(store, parent, ctx) ==
  Append([store EXCEPT ![parent] = [ctx EXCEPT !.span = store[parent].span,
                                               !.spanTp = store[parent].spanTp]],
         ctx)

\* The context Trace returns is a new value derived from the one it was
\* given, which stays as it is.
DeriveContext(store, parent, ctx) == Append(store, ctx)

Trace(c, actor, fnName, isNewRoot, attrs, capture, errFn) ==
  LET ctx0 == ctxs[c]
      id == Len(spans) + 1
      cfg0 == TraceConfig(ctx0, actor, fnName, isNewRoot)
      addLevel == GetVIncrease(cfg0.LogLevelIncreaser, cfg0.Depth)
      raised == IncreaseLevel(ctx0, cfg0)
      ctx1 == raised[1]
      cfg1 == raised[2]
      ctx2 == withDepth(ctx1, cfg1.Depth)
      cfg == IF ~ProviderEnabled(cfg1.Provider, cfg1)
             THEN [cfg1 EXCEPT !.Provider = NoopTracerProvider]
             ELSE cfg1
      log == WithName(cfg.Logger, SpanName(cfg))
      startKv == IF Len(attrs) # 0 THEN kvListToLogAttrs(attrs) ELSE <<>>
      ctx3 == [ctx2 EXCEPT !.spanTp = cfg.Provider, !.span = id]
      parentSpan == ctx0.span
  IN /\ logOut' = LogInfo(logOut, log, id, "starting span", startKv)
     /\ exported' = TracerStart(exported, Len(logOut'), cfg.Provider, id,
                                SpanName(cfg), attrs)
     /\ ctxs' = DeriveContext(ctxs, c, ctx3)
     /\ spans' = Append(spans,
          [parent |-> c, ctx |-> Len(ctxs) + 1, newRoot |-> isNewRoot,
           depth |-> cfg.Depth, name |-> SpanName(cfg),
           resolved |-> cfg1.Provider, provider |-> cfg.Provider,
           acquired |-> cfg0.Logger, logger |-> cfg.Logger, log |-> log,
           lli |-> cfg.LogLevelIncreaser, addLevel |-> addLevel,
           \* b.err (is an error variable captured) and b.errFn, and the
           \* value the captured variable holds now
           err |-> capture, errFn |-> errFn, retErr |-> "nil",
           \* bookkeeping of the call tree, not read by the program:
           \* nesting level below the outermost call, and whether the
           \* call and all calls around it were made without new-root
           nest |-> IF parentSpan = 0 THEN 0 ELSE spans[parentSpan].nest + 1,
           plain |-> ~isNewRoot /\ (parentSpan = 0 \/ spans[parentSpan].plain)])
     /\ calls' = Append(calls, [op |-> "Trace", span |-> id, arg |-> attrs,
                                actor |-> actor, fnName |-> fnName,
                                at |-> Len(exported) + 1, lat |-> Len(logOut) + 1])
     /\ UNCHANGED <<globalTp, globalLogger, fn, slogs, arrays, reg>>

----------------------------------------------------------------------------
(* Process start-up: the registries and the root context are set before    *)
(* the first instrumented call runs.                                       *)

SetGlobalTracerProvider(tp) ==
  /\ spans = <<>> /\ globalTp = NoopTracerProvider
  /\ globalTp' = tp
  /\ UNCHANGED <<globalLogger, ctxs, spans, logOut, exported, calls, fn, slogs, arrays, reg>>

SetGlobalLogger(log) ==
  /\ spans = <<>> /\ globalLogger = Discard
  /\ globalLogger' = log
  /\ UNCHANGED <<globalTp, ctxs, spans, logOut, exported, calls, fn, slogs, arrays, reg>>

\* The application builds its root context with Context()...Build()
Build(tp, log, lli) ==
  /\ spans = <<>> /\ ctxs = <<Background>>
  /\ ctxs' = <<ContextBuild(tp, log, lli)>>
  /\ ctxs' # ctxs
  /\ UNCHANGED <<globalTp, globalLogger, spans, logOut, exported, calls, fn, slogs, arrays, reg>>

ZapLoggers == {ZapLogger(u) : u \in 0..MaxUpto}
Increasers == {NoLogLevelIncrease} \cup {NthLogLevelIncrease(n) : n \in 1..MaxN}

Setup ==
  \/ \E tp \in BuiltProviders("global") : SetGlobalTracerProvider(tp)
  \/ SetGlobalLogger(ZapLogger(MaxUpto))
  \/ \E tp \in BuiltProviders("ctx") \cup {NoProvider},
        log \in ZapLoggers \cup {NoLogger},
        lli \in Increasers \cup {NoLLI} : Build(tp, log, lli)

Actors == {""}
FnNames == {"op"}

Init ==
  /\ globalTp = NoopTracerProvider
  /\ globalLogger = Discard
  /\ ctxs = <<Background>>
  /\ spans = <<>>
  /\ logOut = <<>>
  /\ exported = <<>>
  /\ calls = <<>>
  /\ fn = [op |-> "idle", kind |-> "no", depth |-> 0, n |-> 0, out |-> 0]
  /\ slogs = <<>>
  /\ arrays = <<>>
  /\ reg = RegInit

TraceStep ==
  /\ Len(spans) < MaxSpans
  /\ \E c \in 1..Len(ctxs), r \in BOOLEAN, actor \in Actors, fnName \in FnNames :
       Trace(c, actor, fnName, r, <<>>, FALSE, "default")

Next == Setup \/ TraceStep

Spec == Init /\ [][Next]_vars

\* Trace calls from named and unnamed actors with named and unnamed functions
MaxNameSpans == 2

NameActors == {"", "Tracer"}
NameFnNames == {"", "Func"}

NameTraceStep ==
  /\ Len(spans) < MaxNameSpans
  /\ \E c \in 1..Len(ctxs), actor \in NameActors, fnName \in NameFnNames :
       Trace(c, actor, fnName, FALSE, <<>>, FALSE, "default")

NextName == Setup \/ NameTraceStep

SpecName == Init /\ [][NextName]_vars

----------------------------------------------------------------------------
(* The correlation wrappers.  Their methods are written over an effect     *)
(* record e = [log, exp, calls]: the log output, the operations that       *)
(* reached a provider, and the history of calls.                           *)

spanNameKey == "span-name"
spanEventKey == "span-event"
spanStatusCodeKey == "span-status-code"
spanStatusDescriptionKey == "span-status-description"

Effects == [log |-> logOut, exp |-> exported, calls |-> calls]

\* A method of the span a provider's tracer returned: the SDK span records
\* it, the no-op span does nothing.  logged is bookkeeping, not read by the
\* program: the number of log records written before the operation
\* reached the span.
InnerOp(e, tp, s, op, arg) ==
  IF tp.kind = "sdk"
  THEN [e EXCEPT !.exp = Append(@, [span |-> s, tp |-> tp, op |-> op, arg |-> arg,
                                    logged |-> Len(e.log)])]
  ELSE e

EInfo(e, log, s, msg, kv) == [e EXCEPT !.log = LogInfo(@, log, s, msg, kv)]
EError(e, log, s, err, msg, kv) == [e EXCEPT !.log = LogError(@, log, s, err, msg, kv)]
\* A call enters the history of calls; at and lat are bookkeeping, not read
\* by the program: where the operations and the log records that follow
\* it start
ECall(e, op, s, arg) ==
  [e EXCEPT !.calls = Append(@, [op |-> op, span |-> s, arg |-> arg,
                                 at |-> Len(e.exp) + 1, lat |-> Len(e.log) + 1])]

(* loggingSpan *)

LS_AddEvent(e, s, name) ==
  InnerOp(EInfo(e, spans[s].log, s, "span event", <<Str(spanEventKey), Str(name)>>),
          spans[s].provider, s, "AddEvent", <<name>>)

LS_RecordError(e, s, err) ==
  InnerOp(EError(e, spans[s].log, s, err, "span error", <<>>),
          spans[s].provider, s, "RecordError", <<err>>)

\* SetStatus logging the description with every status code
LS_SetStatus_AlwaysDescription(e, s, code, description) ==
  InnerOp(EInfo(e, spans[s].log, s, "span status change",
                <<Str(spanStatusCodeKey), Str(code),
                  Str(spanStatusDescriptionKey), Str(description)>>),
          spans[s].provider, s, "SetStatus", <<code, description>>)

LS_SetStatus(e, s, code, description) ==
  LET args == <<Str(spanStatusCodeKey), Str(code)>>
                \o (IF code = "Error"
                    THEN <<Str(spanStatusDescriptionKey), Str(description)>>
                    ELSE <<>>)
  IN InnerOp(EInfo(e, spans[s].log, s, "span status change", args),
             spans[s].provider, s, "SetStatus", <<code, description>>)

LS_SetName(e, s, name) ==
  InnerOp(EInfo(e, spans[s].log, s, "span name change", <<Str(spanNameKey), Str(name)>>),
          spans[s].provider, s, "SetName", <<name>>)

\* SetAttributes writing its log record and not passing the call on
LS_SetAttributes_LogOnly(e, s, kv) ==
  EInfo(e, spans[s].log, s, "span attribute change", kvListToLogAttrs(kv))

LS_SetAttributes(e, s, kv) ==
  InnerOp(EInfo(e, spans[s].log, s, "span attribute change", kvListToLogAttrs(kv)),
          spans[s].provider, s, "SetAttributes", kv)

\* DefaultErrRegisterFunc without the test for nil
DefaultErrRegisterFunc_NoNilCheck(e, err, s) == LS_RecordError(e, s, err)

\* DefaultErrRegisterFunc: record the error with the span when it is non-nil
DefaultErrRegisterFunc(e, err, s) ==
  IF err # "nil" THEN LS_RecordError(e, s, err) ELSE e

\* A handler as the package's tests register: an event and a log entry for
\* the error it knows, nothing otherwise
EventErrRegisterFunc(e, err, s) ==
  IF err = "known"
  THEN EInfo(LS_AddEvent(e, s, "SomeOperationError"),
             spans[s].log, s, "manual entry about some operation error", <<>>)
  ELSE e

ErrRegister(e, errFn, err, s) ==
  IF errFn = "default"
  THEN DefaultErrRegisterFunc(ECall(e, "ErrRegisterFunc", s, <<err>>), err, s)
  ELSE EventErrRegisterFunc(ECall(e, "ErrRegisterFunc", s, <<err>>), err, s)

\* End handing the ErrRegisterFunc the value the captured variable had
\* when Trace was called
LS_End_ValueAtTrace(e, s) ==
  LET e1 == IF spans[s].err
            THEN ErrRegister(e, spans[s].errFn, "nil", s)
            ELSE e
  IN InnerOp(EInfo(e1, spans[s].log, s, "ending span", <<>>),
             spans[s].provider, s, "End", <<>>)

\* End ending the span first, then logging, then handing over the error
LS_End_EndFirst(e, s) ==
  LET e1 == EInfo(InnerOp(e, spans[s].provider, s, "End", <<>>),
                  spans[s].log, s, "ending span", <<>>)
  IN IF spans[s].err
     THEN ErrRegister(e1, spans[s].errFn, spans[s].retErr, s)
     ELSE e1

\* End logging "ending span" before it hands over the error
LS_End_LogFirst(e, s) ==
  LET e1 == EInfo(e, spans[s].log, s, "ending span", <<>>)
      e2 == IF spans[s].err
            THEN ErrRegister(e1, spans[s].errFn, spans[s].retErr, s)
            ELSE e1
  IN InnerOp(e2, spans[s].provider, s, "End", <<>>)

LS_End(e, s) ==
  LET e1 == IF spans[s].err
            THEN ErrRegister(e, spans[s].errFn, spans[s].retErr, s)
            ELSE e
  IN InnerOp(EInfo(e1, spans[s].log, s, "ending span", <<>>),
             spans[s].provider, s, "End", <<>>)

(* spanLogger: l = [log, span, keysAndValues], tp the provider of the span *)

\* spanLogger.Info holding the loggingSpan of the pair instead of the span
\* the tracer returned
SL_Info_ThroughLoggingSpan(e, l, tp, msg, keysAndValues) ==
  IF ~Enabled(l.log) THEN e
  ELSE EInfo(LS_SetAttributes(e, l.span,
                              keysAndValuesToAttrs(l.keysAndValues \o keysAndValues)),
             l.log, l.span, msg, keysAndValues)

SL_Info(e, l, tp, msg, keysAndValues) ==
  IF ~Enabled(l.log) THEN e
  ELSE EInfo(InnerOp(e, tp, l.span, "SetAttributes",
                     keysAndValuesToAttrs(l.keysAndValues \o keysAndValues)),
             l.log, l.span, msg, keysAndValues)

\* spanLogger.Error without the test of Enabled at its start
SL_Error_NoGate(e, l, tp, err, msg, keysAndValues) ==
  EError(InnerOp(InnerOp(e, tp, l.span, "SetAttributes",
                         keysAndValuesToAttrs(l.keysAndValues \o keysAndValues)),
                 tp, l.span, "RecordError", <<err>>),
         l.log, l.span, err, msg, keysAndValues)

SL_Error(e, l, tp, err, msg, keysAndValues) ==
  IF ~Enabled(l.log) THEN e
  ELSE EError(InnerOp(InnerOp(e, tp, l.span, "SetAttributes",
                              keysAndValuesToAttrs(l.keysAndValues \o keysAndValues)),
                      tp, l.span, "RecordError", <<err>>),
              l.log, l.span, err, msg, keysAndValues)

\* The spanLogger Trace returns for span s
TraceLogger(s) == [log |-> spans[s].log, span |-> s, keysAndValues |-> <<>>]

----------------------------------------------------------------------------
(* Calls of the instrumented code on the pair a Trace call returned *)

Commit(e) ==
  /\ logOut' = e.log
  /\ exported' = e.exp
  /\ calls' = e.calls
  /\ UNCHANGED <<globalTp, globalLogger, ctxs, spans, fn, slogs, arrays, reg>>

SpanAddEvent(s, name) ==
  Commit(LS_AddEvent(ECall(Effects, "AddEvent", s, <<name>>), s, name))

SpanRecordError(s, err) ==
  Commit(LS_RecordError(ECall(Effects, "RecordError", s, <<err>>), s, err))

SpanSetStatus(s, code, description) ==
  Commit(LS_SetStatus(ECall(Effects, "SetStatus", s, <<code, description>>),
                      s, code, description))

SpanSetName(s, name) ==
  Commit(LS_SetName(ECall(Effects, "SetName", s, <<name>>), s, name))

SpanSetAttributes(s, kv) ==
  Commit(LS_SetAttributes(ECall(Effects, "SetAttributes", s, kv), s, kv))

SpanEnd(s) == Commit(LS_End(ECall(Effects, "End", s, <<>>), s))

LoggerInfo(s, msg, keysAndValues) ==
  Commit(SL_Info(ECall(Effects, "Info", s, keysAndValues),
                 TraceLogger(s), spans[s].provider, msg, keysAndValues))

LoggerError(s, err, msg, keysAndValues) ==
  Commit(SL_Error(ECall(Effects, "Error", s, keysAndValues),
                  TraceLogger(s), spans[s].provider, err, msg, keysAndValues))

\* The traced function assigns its (captured) error return variable
SetRetErr(s, err) ==
  /\ spans[s].err /\ spans[s].retErr # err
  /\ spans' = [spans EXCEPT ![s].retErr = err]
  /\ UNCHANGED <<globalTp, globalLogger, ctxs, logOut, exported, calls, fn, slogs, arrays, reg>>

MaxOpSpans == 2    \* Trace calls in one behaviour of SpecOps
MaxCalls == 4      \* calls (Trace included) in one behaviour of SpecOps

OpAttrs == {<<AttrAny("hello", [t |-> "bool", v |-> "true"])>>}
OpKeysAndValues == {<<>>, <<Str("hello"), [t |-> "float64", v |-> "-1.2"]>>}
StatusCodes == {"Ok", "Error"}
ErrValues == {"nil", "known", "other"}
ErrFns == {"default", "event"}

\* Start-up of SpecOps: a root context with a logger and a provider that
\* traces up to a depth
OpsSetup ==
  \E tp \in {SDKProvider("ctx", "maxdepth", 0), SDKProvider("ctx", "always", 0)},
     log \in {ZapLogger(MaxUpto), ZapLogger(0), NoLogger} :
       Build(tp, log, NoLLI)

OpsTrace ==
  /\ Len(spans) < MaxOpSpans /\ Len(calls) < MaxCalls
  /\ \E c \in 1..Len(ctxs), attrs \in OpAttrs, capture \in BOOLEAN, errFn \in ErrFns :
       /\ (~capture => errFn = "default")
       /\ Trace(c, "worker", "doWork", FALSE, attrs, capture, errFn)

OpsCall ==
  /\ Len(calls) < MaxCalls
  /\ \E s \in 1..Len(spans) :
       \/ SpanAddEvent(s, "DoSTH")
       \/ SpanRecordError(s, "other")
       \/ \E code \in StatusCodes : SpanSetStatus(s, code, "desc")
       \/ SpanSetName(s, "foo")
       \/ SpanSetAttributes(s, <<AttrAny("result", Str("ok"))>>)
       \/ SpanEnd(s)
       \/ \E kv \in OpKeysAndValues : LoggerInfo(s, "msg", kv)
       \/ \E kv \in OpKeysAndValues : LoggerError(s, "other", "msg", kv)

OpsRetErr == \E s \in 1..Len(spans), err \in ErrValues : SetRetErr(s, err)

NextOps == OpsSetup \/ OpsTrace \/ OpsCall \/ OpsRetErr

SpecOps == Init /\ [][NextOps]_vars


----------------------------------------------------------------------------
(* spanLogger objects and their keysAndValues slices.  A slice is a view   *)
(* [arr, len, cap] of a backing array; arr = 0 is the nil slice.           *)

NilSlice == [arr |-> 0, len |-> 0, cap |-> 0]

NilValue == [t |-> "nil", v |-> ""]

\* The elements a slice shows
SliceRead(arrs, sl) == [i \in 1..sl.len |-> arrs[sl.arr][i]]

\* Capacity of the array append allocates when the old one is too small:
\* the needed length when that is more than double the old capacity, and
\* double the old capacity otherwise (capacities below 1024; the
\* allocator's size classes leave the small capacities used here as they are)
GrowCap(oldCap, needed) == IF needed > 2 * oldCap THEN needed ELSE 2 * oldCap

\* append copying into a new array every time
GoAppend_AlwaysCopy(arrs, sl, elems) ==
  [arrays |-> Append(arrs, SliceRead(arrs, sl) \o elems),
   slice |-> [arr |-> Len(arrs) + 1, len |-> sl.len + Len(elems),
              cap |-> sl.len + Len(elems)]]

\* append(sl, elems...): written into the spare capacity of the backing
\* array when the result fits, into a new array otherwise
GoAppend(arrs, sl, elems) ==
  LET needed == sl.len + Len(elems)
      newCap == GrowCap(sl.cap, needed)
  IN IF needed <= sl.cap
     THEN [arrays |->
             IF elems = <<>> THEN arrs
             ELSE [arrs EXCEPT ![sl.arr] =
                     [i \in 1..sl.cap |->
                        IF i > sl.len /\ i <= needed THEN elems[i - sl.len] ELSE @[i]]],
           slice |-> [sl EXCEPT !.len = needed]]
     ELSE [arrays |->
             Append(arrs, [i \in 1..newCap |->
                             IF i <= sl.len THEN arrs[sl.arr][i]
                             ELSE IF i <= needed THEN elems[i - sl.len]
                             ELSE NilValue]),
           slice |-> [arr |-> Len(arrs) + 1, len |-> needed, cap |-> newCap]]

\* The span of the spanLogger tests: a span that records the calls made on it
FakeProvider == SDKProvider("fake", "always", 0)

\* spanLogger i as the methods read it
LoggerAt(i) ==
  [log |-> slogs[i].log, span |-> slogs[i].span,
   keysAndValues |-> SliceRead(arrays, slogs[i].kv)]

\* A new spanLogger object that wraps the span of the first spanLogger
NewLogger_FirstSpan(i, log, kv, given) ==
  slogs' = Append(slogs, [log |-> log, span |-> slogs[1].span, kv |-> kv,
                          from |-> i, given |-> given])

\* A new spanLogger object made by a method of spanLogger i; from and given
\* are bookkeeping, not read by the program: the object it was derived from
\* and the key/value list it was created with
NewLogger(i, log, kv, given) ==
  slogs' = Append(slogs, [log |-> log, span |-> slogs[i].span, kv |-> kv,
                          from |-> i, given |-> given])

SL_V(i, level) ==
  /\ NewLogger(i, V(slogs[i].log, level), slogs[i].kv, slogs[i].given)
  /\ calls' = Append(calls, [op |-> "V", logger |-> i, span |-> slogs[i].span,
                             arg |-> <<>>, given |-> slogs[i].given,
                             at |-> Len(exported) + 1, n |-> 0,
                             lat |-> Len(logOut) + 1, ln |-> 0])
  /\ UNCHANGED <<globalTp, globalLogger, ctxs, spans, logOut, exported, fn, arrays, reg>>

SL_WithName(i, name) ==
  /\ NewLogger(i, WithName(slogs[i].log, name), slogs[i].kv, slogs[i].given)
  /\ calls' = Append(calls, [op |-> "WithName", logger |-> i, span |-> slogs[i].span,
                             arg |-> <<>>, given |-> slogs[i].given,
                             at |-> Len(exported) + 1, n |-> 0,
                             lat |-> Len(logOut) + 1, ln |-> 0])
  /\ UNCHANGED <<globalTp, globalLogger, ctxs, spans, logOut, exported, fn, arrays, reg>>

\* WithValues keeping the appended slice in the receiver as well
SL_WithValues_InPlace(i, keysAndValues) ==
  LET r == GoAppend(arrays, slogs[i].kv, keysAndValues)
  IN /\ slogs' = Append([slogs EXCEPT ![i].kv = r.slice],
                        [log |-> WithValues(slogs[i].log, keysAndValues),
                         span |-> slogs[i].span, kv |-> r.slice, from |-> i,
                         given |-> slogs[i].given \o keysAndValues])
     /\ arrays' = r.arrays
     /\ calls' = Append(calls, [op |-> "WithValues", logger |-> i,
                                span |-> slogs[i].span, arg |-> keysAndValues,
                                given |-> slogs[i].given,
                                at |-> Len(exported) + 1, n |-> 0,
                                lat |-> Len(logOut) + 1, ln |-> 0])
     /\ UNCHANGED <<globalTp, globalLogger, ctxs, spans, logOut, exported, fn, reg>>

SL_WithValues(i, keysAndValues) ==
  LET r == GoAppend(arrays, slogs[i].kv, keysAndValues)
  IN /\ NewLogger(i, WithValues(slogs[i].log, keysAndValues), r.slice,
                  slogs[i].given \o keysAndValues)
     /\ arrays' = r.arrays
     /\ calls' = Append(calls, [op |-> "WithValues", logger |-> i,
                                span |-> slogs[i].span, arg |-> keysAndValues,
                                given |-> slogs[i].given,
                                at |-> Len(exported) + 1, n |-> 0,
                                lat |-> Len(logOut) + 1, ln |-> 0])
     /\ UNCHANGED <<globalTp, globalLogger, ctxs, spans, logOut, exported, fn, reg>>

\* Info and Error of spanLogger i: the methods' effects on the span and the
\* logger, and append's effect on the backing array
SL_Call(i, op, e, keysAndValues) ==
  /\ logOut' = e.log
  /\ exported' = e.exp
  /\ calls' = Append(calls, [op |-> op, logger |-> i, span |-> slogs[i].span,
                             arg |-> keysAndValues, given |-> slogs[i].given,
                             at |-> Len(exported) + 1,
                             n |-> Len(e.exp) - Len(exported),
                             lat |-> Len(logOut) + 1,
                             ln |-> Len(e.log) - Len(logOut)])
  /\ arrays' = IF Enabled(slogs[i].log)
               THEN GoAppend(arrays, slogs[i].kv, keysAndValues).arrays
               ELSE arrays
  /\ UNCHANGED <<globalTp, globalLogger, ctxs, spans, fn, slogs, reg>>

SL_InfoCall(i, msg, keysAndValues) ==
  SL_Call(i, "Info", SL_Info(Effects, LoggerAt(i), FakeProvider, msg, keysAndValues),
          keysAndValues)

SL_ErrorCall(i, err, msg, keysAndValues) ==
  SL_Call(i, "Error",
          SL_Error(Effects, LoggerAt(i), FakeProvider, err, msg, keysAndValues),
          keysAndValues)

MaxLoggers == 5     \* spanLogger objects in one behaviour of SpecLog
MaxLogCalls == 1    \* Info and Error calls in one behaviour of SpecLog

PairA == <<Str("hello-1"), [t |-> "int", v |-> "123"]>>
PairB == <<Str("private"), [t |-> "bool", v |-> "true"]>>
OddList == <<Str("hello-2")>>
NonStringKeyList ==
  <<Str("hello-4"), [t |-> "bool", v |-> "true"],
    [t |-> "int", v |-> "123"], [t |-> "bool", v |-> "false"]>>

WithValuesLists == {PairA, PairB, PairA \o PairB}
InfoLists == {<<>>, PairA, OddList, NonStringKeyList}
ErrorLists == {<<>>, PairB}

\* The spanLogger the tests start from: a zap logger named "foo" that logs
\* level 0, and a recording span
InitLog ==
  /\ globalTp = NoopTracerProvider
  /\ globalLogger = Discard
  /\ ctxs = <<Background>>
  /\ spans = <<>>
  /\ logOut = <<>>
  /\ exported = <<>>
  /\ calls = <<>>
  /\ fn = [op |-> "idle", kind |-> "no", depth |-> 0, n |-> 0, out |-> 0]
  /\ slogs = <<[log |-> WithName(ZapLogger(0), "foo"), span |-> 1,
                kv |-> NilSlice, from |-> 0, given |-> <<>>]>>
  /\ arrays = <<>>
  /\ reg = RegInit

LogCalls == Len(SelectSeq(calls, LAMBDA c : c.op \in {"Info", "Error"}))

LogDerive ==
  /\ Len(slogs) < MaxLoggers
  /\ \E i \in 1..Len(slogs) :
       \/ SL_V(i, 1)
       \/ SL_WithName(i, "log")
       \/ \E kv \in WithValuesLists : SL_WithValues(i, kv)

LogCall ==
  /\ LogCalls < MaxLogCalls
  /\ \E i \in 1..Len(slogs) :
       \/ \E kv \in InfoLists : SL_InfoCall(i, "msg", kv)
       \/ \E kv \in ErrorLists : SL_ErrorCall(i, "sample error", "msg", kv)

NextLog == LogDerive \/ LogCall

SpecLog == InitLog /\ [][NextLog]_vars

\* The loggers two Trace calls returned, and the loggers derived from them
MaxChainLoggers == 4   \* spanLogger objects in one behaviour of SpecChain
MaxChainCalls == 2     \* Info and Error calls in one behaviour of SpecChain

InitChain ==
  /\ globalTp = NoopTracerProvider
  /\ globalLogger = Discard
  /\ ctxs = <<Background>>
  /\ spans = <<>>
  /\ logOut = <<>>
  /\ exported = <<>>
  /\ calls = <<>>
  /\ fn = [op |-> "idle", kind |-> "no", depth |-> 0, n |-> 0, out |-> 0]
  /\ slogs = <<[log |-> WithName(ZapLogger(1), "foo"), span |-> 1,
                kv |-> NilSlice, from |-> 0, given |-> <<>>],
               [log |-> WithName(ZapLogger(1), "bar"), span |-> 2,
                kv |-> NilSlice, from |-> 0, given |-> <<>>]>>
  /\ arrays = <<>>
  /\ reg = RegInit

ChainDerive ==
  /\ Len(slogs) < MaxChainLoggers
  /\ \E i \in 1..Len(slogs) :
       \/ SL_V(i, 1)
       \/ SL_WithName(i, "log")
       \/ \E kv \in WithValuesLists : SL_WithValues(i, kv)

ChainCall ==
  /\ LogCalls < MaxChainCalls
  /\ \E i \in 1..Len(slogs) :
       \/ \E kv \in InfoLists : SL_InfoCall(i, "msg", kv)
       \/ \E kv \in ErrorLists : SL_ErrorCall(i, "sample error", "msg", kv)

NextChain == ChainDerive \/ ChainCall

SpecChain == InitChain /\ [][NextChain]_vars

----------------------------------------------------------------------------
(* The log level increasers as functions of the depth alone *)

MaxFnDepth == 9
MaxFnN == 5

FnInputs ==
  {[op |-> "in", kind |-> "nth", depth |-> d, n |-> n, out |-> 0] :
      d \in 0..MaxFnDepth, n \in 1..MaxFnN}
    \cup {[op |-> "in", kind |-> "no", depth |-> d, n |-> 0, out |-> 0] :
            d \in 0..MaxFnDepth}

InitFn ==
  /\ globalTp = NoopTracerProvider
  /\ globalLogger = Discard
  /\ ctxs = <<Background>>
  /\ spans = <<>>
  /\ logOut = <<>>
  /\ exported = <<>>
  /\ calls = <<>>
  /\ fn \in FnInputs
  /\ slogs = <<>>
  /\ arrays = <<>>
  /\ reg = RegInit

\* One call of GetVIncrease on a config of the drawn depth
CallGetVIncrease ==
  /\ fn.op = "in"
  /\ fn' = [fn EXCEPT !.op = "out",
                      !.out = GetVIncrease(IF fn.kind = "nth"
                                           THEN NthLogLevelIncrease(fn.n)
                                           ELSE NoLogLevelIncrease,
                                           fn.depth)]
  /\ UNCHANGED <<globalTp, globalLogger, ctxs, spans, logOut, exported, calls,
                 slogs, arrays, reg>>

NextFn == CallGetVIncrease

SpecFn == InitFn /\ [][NextFn]_vars

----------------------------------------------------------------------------
(* The logger registry under concurrent calls.  A goroutine is a stack of  *)
(* frames [op, pc, arg, ret]; a function that locks a mutex waits at pc    *)
(* "lock" until the mutex is free, and runs its body at "locked".          *)

MaxRegCalls == 3   \* calls the goroutines start in one behaviour of SpecReg

Procs == 1..MaxProcs

\* The logger myAcquire falls back to
StdLogger == [ZapLogger(1) EXCEPT !.name = "FooLogger"]

RegLoggers == {ZapLogger(0), StdLogger}
RegContexts == {Background, contextWithLogger(Background, ZapLogger(1))}

\* Acquire functions: the default one, the one of the package's example,
\* and functions that call back into the package from their body
AcquireFuncs ==
  {"DefaultAcquireLoggerFunc", "myAcquire", "callsLoggerFromContext",
   "callsSetAcquireLoggerFunc", "callsTrace"}

\* The mutex a function locks on entry
MutexOf(op) ==
  IF op \in {"GetGlobalLogger", "SetGlobalLogger"} THEN "loggerMu"
  ELSE "acquireLoggerFuncMu"

LockingOps ==
  {"GetGlobalLogger", "SetGlobalLogger", "LoggerFromContext", "SetAcquireLoggerFunc"}

\* A new frame; floorLog and floorFn (the writes done when the call
\* started), seenLog and seenFn (the write whose value the call read) and
\* fn (the acquire function the call ran) are bookkeeping
Frame(r, op, arg) ==
  [op |-> op, pc |-> IF op \in LockingOps THEN "lock" ELSE "run",
   arg |-> arg, ret |-> NoLogger, fn |-> "",
   floorLog |-> Len(r.loggerSets), floorFn |-> Len(r.funcSets),
   seenLog |-> 0, seenFn |-> 0]

Top(r, p) == r.procs[p][Len(r.procs[p])]

SetTop(r, p, f) == [r EXCEPT !.procs[p][Len(r.procs[p])] = f]

\* A call from the top frame of p: the caller waits at "called"
Call(r, p, op, arg) ==
  LET r1 == SetTop(r, p, [Top(r, p) EXCEPT !.pc = "called"])
  IN [r1 EXCEPT !.procs[p] = Append(@, Frame(r, op, arg))]

\* Lock never waiting
CanLock_NoMutex(r, m) == TRUE

\* sync.Mutex.Lock by a goroutine that is not made to wait: Lock blocks as
\* long as the mutex is locked, whoever locked it
CanLock(r, m) == r.mu[m] = 0

Unlock(r, m) == [r EXCEPT !.mu[m] = 0]

\* The top frame of p returns v: its caller goes on with the value, and a
\* call the goroutine started itself is done
Return(r, p, v) ==
  LET f == [Top(r, p) EXCEPT !.ret = v, !.pc = "done"]
      rest == SubSeq(r.procs[p], 1, Len(r.procs[p]) - 1)
  IN IF rest = <<>>
     THEN [r EXCEPT !.procs[p] = <<>>, !.done = Append(@, f)]
     ELSE [r EXCEPT !.procs[p] =
             [rest EXCEPT ![Len(rest)] =
                [@ EXCEPT !.ret = v, !.pc = "returned",
                          !.seenLog = IF f.seenLog > @ THEN f.seenLog ELSE @]]]

\* A goroutine calls one of the four functions of the registry
RegStart(p) ==
  /\ reg.procs[p] = <<>> /\ reg.started < MaxRegCalls
  /\ \E call \in ({<<"GetGlobalLogger", NoLogger>>}
                   \cup {<<"SetGlobalLogger", log>> : log \in RegLoggers}
                   \cup {<<"SetAcquireLoggerFunc", f>> : f \in AcquireFuncs}
                   \cup {<<"LoggerFromContext", ctx>> : ctx \in RegContexts}) :
       reg' = [reg EXCEPT !.procs[p] = <<Frame(reg, call[1], call[2])>>,
                          !.started = @ + 1]
  /\ UNCHANGED <<globalTp, globalLogger, ctxs, spans, logOut, exported, calls, fn,
                 slogs, arrays>>

\* mu.Lock() returns
RegLock(p) ==
  /\ reg.procs[p] # <<>> /\ Top(reg, p).pc = "lock"
  /\ CanLock(reg, MutexOf(Top(reg, p).op))
  /\ reg' = SetTop([reg EXCEPT !.mu[MutexOf(Top(reg, p).op)] = p], p,
                   [Top(reg, p) EXCEPT !.pc = "locked"])
  /\ UNCHANGED <<globalTp, globalLogger, ctxs, spans, logOut, exported, calls, fn,
                 slogs, arrays>>

\* GetGlobalLogger: return logger, with the deferred Unlock
RegGetGlobalLogger(p) ==
  /\ reg.procs[p] # <<>>
  /\ Top(reg, p).pc = "locked" /\ Top(reg, p).op = "GetGlobalLogger"
  /\ reg' = Return(Unlock(SetTop(reg, p, [Top(reg, p) EXCEPT
                                            !.seenLog = Len(reg.loggerSets)]),
                          "loggerMu"),
                   p, globalLogger)
  /\ UNCHANGED <<globalTp, globalLogger, ctxs, spans, logOut, exported, calls, fn,
                 slogs, arrays>>

\* SetGlobalLogger: logger = log, with the deferred Unlock
RegSetGlobalLogger(p) ==
  /\ reg.procs[p] # <<>>
  /\ Top(reg, p).pc = "locked" /\ Top(reg, p).op = "SetGlobalLogger"
  /\ globalLogger' = Top(reg, p).arg
  /\ reg' = Return(Unlock([reg EXCEPT !.loggerSets = Append(@, Top(reg, p).arg)],
                          "loggerMu"),
                   p, NoLogger)
  /\ UNCHANGED <<globalTp, ctxs, spans, logOut, exported, calls, fn, slogs, arrays>>

\* SetAcquireLoggerFunc: acquireLoggerFunc = fn, with the deferred Unlock
RegSetAcquireLoggerFunc(p) ==
  /\ reg.procs[p] # <<>>
  /\ Top(reg, p).pc = "locked" /\ Top(reg, p).op = "SetAcquireLoggerFunc"
  /\ reg' = Return(Unlock([reg EXCEPT !.acquireLoggerFunc = Top(reg, p).arg,
                                      !.funcSets = Append(@, Top(reg, p).arg)],
                          "acquireLoggerFuncMu"),
                   p, NoLogger)
  /\ UNCHANGED <<globalTp, globalLogger, ctxs, spans, logOut, exported, calls, fn,
                 slogs, arrays>>

\* LoggerFromContext calling the default acquire function whatever function
\* is registered
RegLoggerFromContext_DefaultOnly(p) ==
  /\ reg.procs[p] # <<>> /\ Top(reg, p).op = "LoggerFromContext"
  /\ \/ /\ Top(reg, p).pc = "locked"
        /\ reg' = Call(SetTop(reg, p, [Top(reg, p) EXCEPT
                                         !.fn = "DefaultAcquireLoggerFunc",
                                         !.seenFn = Len(reg.funcSets)]),
                       p, "DefaultAcquireLoggerFunc", Top(reg, p).arg)
     \/ /\ Top(reg, p).pc = "returned"
        /\ reg' = Return(Unlock(reg, "acquireLoggerFuncMu"), p, Top(reg, p).ret)
  /\ UNCHANGED <<globalTp, globalLogger, ctxs, spans, logOut, exported, calls, fn,
                 slogs, arrays>>

\* LoggerFromContext: with the mutex locked, call acquireLoggerFunc(ctx);
\* when that returned, the deferred Unlock runs and its result is returned
RegLoggerFromContext(p) ==
  /\ reg.procs[p] # <<>> /\ Top(reg, p).op = "LoggerFromContext"
  /\ \/ /\ Top(reg, p).pc = "locked"
        /\ reg' = Call(SetTop(reg, p, [Top(reg, p) EXCEPT
                                         !.fn = reg.acquireLoggerFunc,
                                         !.seenFn = Len(reg.funcSets)]),
                       p, reg.acquireLoggerFunc, Top(reg, p).arg)
     \/ /\ Top(reg, p).pc = "returned"
        /\ reg' = Return(Unlock(reg, "acquireLoggerFuncMu"), p, Top(reg, p).ret)
  /\ UNCHANGED <<globalTp, globalLogger, ctxs, spans, logOut, exported, calls, fn,
                 slogs, arrays>>

\* The body of an acquire function, and of Trace as far as the registry
\* sees it (Trace resolves its logger with LoggerFromContext)
RegAcquire(p) ==
  /\ reg.procs[p] # <<>> /\ Top(reg, p).op \in AcquireFuncs \cup {"Trace"}
  /\ LET f == Top(reg, p)
         ctx == f.arg
     IN \/ /\ f.pc = "run" /\ f.op = "DefaultAcquireLoggerFunc"
           /\ reg' = IF ctx.logger # NoLogger
                     THEN Return(reg, p, ctx.logger)
                     ELSE Call(reg, p, "GetGlobalLogger", NoLogger)
        \/ /\ f.pc = "run" /\ f.op = "myAcquire"
           /\ reg' = Return(reg, p, IF ctx.logger # NoLogger THEN ctx.logger
                                    ELSE StdLogger)
        \/ /\ f.pc = "run" /\ f.op \in {"callsLoggerFromContext", "Trace"}
           /\ reg' = Call(reg, p, "LoggerFromContext", ctx)
        \/ /\ f.pc = "run" /\ f.op = "callsSetAcquireLoggerFunc"
           /\ reg' = Call(reg, p, "SetAcquireLoggerFunc", "DefaultAcquireLoggerFunc")
        \/ /\ f.pc = "run" /\ f.op = "callsTrace"
           /\ reg' = Call(reg, p, "Trace", ctx)
        \/ /\ f.pc = "returned"
           /\ reg' = Return(reg, p, IF f.op = "callsSetAcquireLoggerFunc"
                                    THEN ctx.logger ELSE f.ret)
  /\ UNCHANGED <<globalTp, globalLogger, ctxs, spans, logOut, exported, calls, fn,
                 slogs, arrays>>

NextReg ==
  \E p \in Procs :
    \/ RegStart(p)
    \/ RegLock(p)
    \/ RegGetGlobalLogger(p)
    \/ RegSetGlobalLogger(p)
    \/ RegSetAcquireLoggerFunc(p)
    \/ RegLoggerFromContext(p)
    \/ RegAcquire(p)

SpecReg == Init /\ [][NextReg]_vars

----------------------------------------------------------------------------
(* Shutdown and ForceFlush of a built provider.  A provider is the sequence *)
(* of the upstream providers it wraps, outermost first: the tail is the     *)
(* underlying provider, the empty sequence a nil one.  An upstream's method *)
(* is "none" when the upstream does not implement it, else the error it     *)
(* returns ("nil" for no error).                                             *)

MaxLayers == 2   \* upstream providers given to one builder

SdkErrors == {"nil", "errA", "errB"}
SdkOps == {"Shutdown", "ForceFlush"}

\* An upstream trace.TracerProvider; full when it implements the package's
\* TracerProvider interface itself, and then it has both methods
Upstreams(id) ==
  {[id |-> id, full |-> FALSE, Shutdown |-> s, ForceFlush |-> f] :
      s \in SdkErrors \cup {"none"}, f \in SdkErrors \cup {"none"}}
    \cup {[id |-> id, full |-> TRUE, Shutdown |-> s, ForceFlush |-> f] :
            s \in SdkErrors, f \in SdkErrors}

composite(upstream, underlying) ==
  IF upstream.full THEN <<upstream>> ELSE <<upstream>> \o underlying

fromUpstream(upstream) == composite(upstream, <<>>)

\* TracerProviderBuilder.Build: the SDK provider converted, then each
\* composite function's provider composed on top of what is built so far
RECURSIVE BuildProvider(_)
BuildProvider(ups) ==
  IF Len(ups) = 1 THEN fromUpstream(ups[1])
  ELSE composite(ups[Len(ups)], BuildProvider(SubSeq(ups, 1, Len(ups) - 1)))

\* The result of an operation: the error returned and the upstreams whose
\* method ran, in order
SdkResult(ret, called) == [ret |-> ret, called |-> called]

upstreamConverter_Shutdown_NoUnderlying(c) ==
  IF c[1].Shutdown # "none" THEN SdkResult(c[1].Shutdown, <<c[1].id>>)
  ELSE SdkResult("nil", <<>>)

RECURSIVE upstreamConverter_Shutdown(_)
upstreamConverter_Shutdown(c) ==
  IF c[1].Shutdown # "none" THEN SdkResult(c[1].Shutdown, <<c[1].id>>)
  ELSE IF Tail(c) # <<>> THEN upstreamConverter_Shutdown(Tail(c))
  ELSE SdkResult("nil", <<>>)

RECURSIVE upstreamConverter_ForceFlush(_)
upstreamConverter_ForceFlush(c) ==
  IF c[1].ForceFlush # "none" THEN SdkResult(c[1].ForceFlush, <<c[1].id>>)
  ELSE IF Tail(c) # <<>> THEN upstreamConverter_ForceFlush(Tail(c))
  ELSE SdkResult("nil", <<>>)

\* The package's Shutdown and ForceFlush: nothing is done on a provider that
\* is no SDKTracerProvider (a nil one), else the provider's method is called
callSDKProvider(tp, op) ==
  IF tp = <<>> THEN SdkResult("nil", <<>>)
  ELSE IF op = "Shutdown" THEN upstreamConverter_Shutdown(tp)
  ELSE upstreamConverter_ForceFlush(tp)

SdkChains ==
  UNION {{ups \in [1..n -> UNION {Upstreams(i) : i \in 1..n}] :
            \A i \in 1..n : ups[i].id = i} : n \in 1..MaxLayers}

SdkInputs ==
  {[op |-> "in", call |-> o, ups |-> ups, tp |-> BuildProvider(ups),
    out |-> SdkResult("nil", <<>>)] : o \in SdkOps, ups \in SdkChains}
    \cup {[op |-> "in", call |-> o, ups |-> <<>>, tp |-> <<>>,
           out |-> SdkResult("nil", <<>>)] : o \in SdkOps}

InitSdk ==
  /\ globalTp = NoopTracerProvider
  /\ globalLogger = Discard
  /\ ctxs = <<Background>>
  /\ spans = <<>>
  /\ logOut = <<>>
  /\ exported = <<>>
  /\ calls = <<>>
  /\ fn \in SdkInputs
  /\ slogs = <<>>
  /\ arrays = <<>>
  /\ reg = RegInit

\* One call of Shutdown or ForceFlush with WithTracerProvider(fn.tp)
CallSDKProvider ==
  /\ fn.op = "in"
  /\ fn' = [fn EXCEPT !.op = "out", !.out = callSDKProvider(fn.tp, fn.call)]
  /\ UNCHANGED <<globalTp, globalLogger, ctxs, spans, logOut, exported, calls,
                 slogs, arrays, reg>>

NextSdk == CallSDKProvider

SpecSdk == InitSdk /\ [][NextSdk]_vars

----------------------------------------------------------------------------
(* Properties *)

SpanIds == 1..Len(spans)

\* The span whose context a Trace call was started from (0: none)
ParentSpan(s) == ctxs[spans[s].parent].span

\* C1: in nested Trace calls without new-root flags, started from a context
\* that carries no depth, the span at nesting level N has Depth N, and every
\* non-root child has exactly its parent's depth + 1.
C1_DepthIsNestingLevel ==
  \A s \in SpanIds :
    /\ spans[s].plain => spans[s].depth = spans[s].nest
    /\ (~spans[s].newRoot /\ ParentSpan(s) # 0)
         => spans[s].depth = spans[ParentSpan(s)].depth + 1
    /\ (~spans[s].newRoot /\ ParentSpan(s) = 0) => spans[s].depth = 0

C1_Witness ==
  \E s \in SpanIds : spans[s].plain /\ spans[s].nest = 2 /\ spans[s].depth = 2

\* C2: a Trace call with the new-root option gets Depth 0 whatever depth its
\* context carries, and counting restarts below it: its direct child has
\* depth 1.
C2_NewRootResetsDepth ==
  \A s \in SpanIds :
    /\ spans[s].newRoot => (spans[s].depth = 0 /\ ctxs[spans[s].ctx].depth = 0)
    /\ (~spans[s].newRoot /\ ParentSpan(s) # 0 /\ spans[ParentSpan(s)].newRoot)
         => spans[s].depth = 1

C2_Witness ==
  \E s, t \in SpanIds :
    /\ spans[s].newRoot /\ ctxs[spans[s].parent].depth >= 1 /\ spans[s].depth = 0
    /\ ~spans[t].newRoot /\ ParentSpan(t) = s /\ spans[t].depth = 1

\* The logger a span was given is neither enabled nor the discard logger
LoggerRefuses(s) == ~isDiscard(spans[s].logger) /\ ~Enabled(spans[s].logger)

\* C3: when the logger resolved for a Trace call (after the verbosity
\* increase) is neither enabled nor the discard logger, the call is
\* suppressed whatever the provider policy says: no "starting span" record
\* is written and no span is started on a tracing backend.
C3_LoggerGateSuppresses ==
  \A s \in SpanIds :
    LoggerRefuses(s) =>
      /\ ~\E i \in 1..Len(logOut) :
            logOut[i].span = s /\ logOut[i].msg = "starting span"
      /\ ~\E i \in 1..Len(exported) : exported[i].span = s

\* The provider policy said no to the span: the provider the call resolved
\* was replaced by the no-op provider
PolicyDisabled(s) == spans[s].provider # spans[s].resolved

\* C4: when the policy says a span is not enabled, every operation later
\* performed on the Span and the Logger that Trace returned is discarded:
\* no span operation reaches a provider and no log record is written for it.
C4_DisabledSpanDiscardsAll ==
  \A s \in SpanIds :
    PolicyDisabled(s) =>
      /\ ~\E i \in 1..Len(exported) : exported[i].span = s
      /\ ~\E i \in 1..Len(logOut) :
            logOut[i].span = s /\ logOut[i].msg # "starting span"

\* C5: with the maximum-depth policy TraceUpto(k), a span is started on the
\* provider exactly when its depth is at most k; a deeper span gets the
\* no-op provider and nothing of it is exported.
C5_TraceUptoDepth ==
  \A s \in SpanIds :
    spans[s].resolved.enabler = "maxdepth" =>
      /\ (spans[s].provider = spans[s].resolved)
           <=> (spans[s].depth <= spans[s].resolved.maxDepth)
      /\ (spans[s].depth <= spans[s].resolved.maxDepth)
           => \E i \in 1..Len(exported) :
                 /\ exported[i].span = s /\ exported[i].op = "Start"
                 /\ exported[i].tp = spans[s].resolved
      /\ (spans[s].depth > spans[s].resolved.maxDepth)
           => /\ spans[s].provider = NoopTracerProvider
              /\ ~\E i \in 1..Len(exported) : exported[i].span = s

C5_Witness ==
  \E s, t \in SpanIds :
    /\ spans[s].resolved.enabler = "maxdepth" /\ spans[s].resolved.maxDepth = 1
    /\ spans[s].depth = 1 /\ spans[s].provider = spans[s].resolved
    /\ spans[t].resolved = spans[s].resolved
    /\ spans[t].depth = 2 /\ spans[t].provider = NoopTracerProvider

\* C6: with the logger-tied policy TraceUptoLogger(), a span is started on
\* the provider exactly when the logger of the call (after the verbosity
\* increase) is enabled at its level or is the discard logger; with the
\* discard logger tracing goes on at any depth.
C6_TraceUptoLogger ==
  \A s \in SpanIds :
    spans[s].resolved.enabler = "logger" =>
      /\ (spans[s].provider = spans[s].resolved)
           <=> \/ /\ spans[s].logger.kind = "zap"
                  /\ spans[s].logger.level <= spans[s].logger.upto
               \/ spans[s].logger.kind = "discard"
      /\ (spans[s].provider # spans[s].resolved)
           => /\ spans[s].provider = NoopTracerProvider
              /\ ~\E i \in 1..Len(exported) : exported[i].span = s
      /\ spans[s].logger.kind = "discard"
           => \E i \in 1..Len(exported) :
                 exported[i].span = s /\ exported[i].tp = spans[s].resolved

C6_Witness ==
  \E t, u \in SpanIds :
    /\ spans[t].resolved.enabler = "logger" /\ spans[t].logger.kind = "zap"
    /\ spans[t].logger.level > spans[t].logger.upto
    /\ spans[t].provider = NoopTracerProvider
    /\ spans[u].resolved.enabler = "logger" /\ spans[u].logger.kind = "zap"
    /\ spans[u].logger.level = 1 /\ spans[u].provider = spans[u].resolved

\* C7: NthLogLevelIncrease(n) with n >= 1 returns 1 exactly when the depth
\* is not 0 and is a multiple of n, and 0 otherwise (n = 2: depths 0..4
\* give 0, 0, 1, 0, 1); NoLogLevelIncrease returns 0 at every depth.
C7_NthLogLevelIncrease ==
  fn.op = "out" =>
    /\ fn.kind = "nth"
         => fn.out = (IF fn.depth # 0 /\ fn.depth % fn.n = 0 THEN 1 ELSE 0)
    /\ (fn.kind = "nth" /\ fn.n = 2 /\ fn.depth <= 4)
         => fn.out = <<0, 0, 1, 0, 1>>[fn.depth + 1]
    /\ fn.kind = "no" => fn.out = 0

C7_Witness ==
  fn.op = "out" /\ fn.kind = "nth" /\ fn.n = 2 /\ fn.depth = 4 /\ fn.out = 1

\* C8: in a chain of nested Trace calls without new-root flags, started
\* from a logger at verbosity 0 with NthLogLevelIncrease(n) in the context
\* (n = 1 when none is attached), the logger of the span at depth d has
\* verbosity floor(d / n), and so has its "starting span" record when the
\* logger writes it.
C8_VerbosityIsDepthOverN ==
  \A s \in SpanIds :
    (spans[s].plain /\ spans[s].logger.kind = "zap" /\ spans[s].lli.kind = "nth")
      => /\ spans[s].lli.n = (IF ctxs[1].lli.kind = "nil" THEN 1 ELSE ctxs[1].lli.n)
         /\ spans[s].logger.level = spans[s].depth \div spans[s].lli.n
         /\ spans[s].log.level = spans[s].depth \div spans[s].lli.n
         /\ \A i \in 1..Len(logOut) :
              logOut[i].span = s => logOut[i].v = spans[s].depth \div spans[s].lli.n

C8_Witness ==
  \E a, b, c \in SpanIds :
    /\ spans[a].plain /\ spans[b].plain /\ spans[c].plain
    /\ ParentSpan(b) = a /\ ParentSpan(c) = b
    /\ spans[c].lli = [kind |-> "nth", n |-> 2]
    /\ spans[a].depth = 0 /\ spans[a].logger.kind = "zap" /\ spans[a].logger.level = 0
    /\ spans[b].depth = 1 /\ spans[b].logger.level = 0
    /\ spans[c].depth = 2 /\ spans[c].logger.level = 1
    /\ \E i \in 1..Len(logOut) : logOut[i].span = c /\ logOut[i].v = 1

\* The logger and the increaser a Trace call finds in context p
AcquiredFrom(p) == IF p.logger.kind # "nil" THEN p.logger ELSE globalLogger

IncreaserFrom(p) == IF p.lli.kind # "nil" THEN p.lli ELSE [kind |-> "nth", n |-> 1]

\* What span s got follows from the context it was started from alone
FromParentOnly(s) ==
  LET p == ctxs[spans[s].parent]
      d == IF spans[s].newRoot \/ p.depth = -1 THEN 0 ELSE p.depth + 1
      lli == IncreaserFrom(p)
      inc == IF lli.kind = "nth" /\ d # 0 /\ d % lli.n = 0 THEN 1 ELSE 0
      from == AcquiredFrom(p)
  IN /\ spans[s].depth = d
     /\ spans[s].acquired = from
     /\ spans[s].logger.kind = from.kind
     /\ spans[s].logger.upto = from.upto
     /\ spans[s].logger.level = (IF from.kind = "zap" THEN from.level + inc ELSE 0)

\* Started from the same context in the same way, two spans get the same
SiblingsAlike(s, t) ==
  (spans[s].parent = spans[t].parent /\ spans[s].newRoot = spans[t].newRoot)
    => /\ spans[s].depth = spans[t].depth
       /\ spans[s].logger = spans[t].logger
       /\ spans[s].provider = spans[t].provider

\* No step changes what a context handed to or returned by Trace carries
ContextsKept ==
  spans # <<>> =>
    /\ Len(ctxs') >= Len(ctxs)
    /\ \A c \in 1..Len(ctxs) : ctxs'[c] = ctxs[c]

\* C9: Trace never changes what its input context carries: every child
\* started from a parent context gets depth = parent depth + 1 and a
\* verbosity computed from the parent's logger only, whatever siblings and
\* their subtrees did before.
C9_TraceKeepsInputContext ==
  /\ [](\A s \in SpanIds : FromParentOnly(s) /\ \A t \in SpanIds : SiblingsAlike(s, t))
  /\ [][ContextsKept]_vars

C9_Witness ==
  \E b, c, d \in SpanIds :
    /\ b < c /\ c < d
    /\ ~spans[b].newRoot /\ ~spans[c].newRoot /\ ~spans[d].newRoot
    /\ ParentSpan(b) # 0 /\ ParentSpan(c) = b
    /\ spans[d].parent = spans[b].parent
    /\ spans[d].depth = 1 /\ spans[c].depth = 2
    /\ spans[c].logger.level = 1 /\ spans[d].logger.level = 0

\* A key/value list the projection takes as it is: pairs with string keys
WellFormed(list) ==
  /\ Len(list) % 2 = 0
  /\ \A k \in 1..(Len(list) \div 2) : list[2 * k - 1].t = "string"

\* C10: for every Info or Error call on an enabled spanLogger with a
\* well-formed key/value list, the attributes set on the span are, in
\* order, the pairs given to the earlier WithValues calls followed by the
\* call's own pairs, each with key LogAttributePrefix + key and the
\* original value; Error also calls RecordError(err) on the span, once.
C10_LogValuesReachSpan ==
  \A c \in 1..Len(calls) :
    LET call == calls[c]
        merged == call.given \o call.arg
        log == slogs[call.logger].log
    IN (/\ call.op \in {"Info", "Error"}
        /\ log.level <= log.upto
        /\ WellFormed(merged))
       => /\ call.at <= Len(exported)
          /\ exported[call.at].op = "SetAttributes"
          /\ exported[call.at].span = call.span
          /\ Len(exported[call.at].arg) = Len(merged) \div 2
          /\ \A k \in 1..(Len(merged) \div 2) :
               /\ exported[call.at].arg[k].key = LogAttributePrefix \o merged[2 * k - 1].v
               /\ exported[call.at].arg[k].value.v = merged[2 * k].v
          /\ call.op = "Info" => call.n = 1
          /\ call.op = "Error"
               => /\ call.n = 2
                  /\ exported[call.at + 1].op = "RecordError"
                  /\ exported[call.at + 1].span = call.span
                  /\ exported[call.at + 1].arg = <<"sample error">>

\* An Info or Error call on a spanLogger that is enabled at its verbosity
EnabledLogCall(call) ==
  /\ call.op \in {"Info", "Error"}
  /\ slogs[call.logger].log.kind = "zap"
  /\ slogs[call.logger].log.level <= slogs[call.logger].log.upto

\* C11: for a key/value list of odd length, or with a key that is not a
\* string, the whole projection of the Info or Error call is dropped: no
\* attribute at all is set on the span, the well-formed pairs of the list
\* included.
C11_MalformedListDropped ==
  \A c \in 1..Len(calls) :
    (EnabledLogCall(calls[c]) /\ ~WellFormed(calls[c].given \o calls[c].arg))
      => \A k \in calls[c].at..(calls[c].at + calls[c].n - 1) :
           exported[k].op = "SetAttributes" => exported[k].arg = <<>>

\* C12: the number of SetAttributes calls made on the span is the number of
\* Info and Error calls that were enabled and whose merged key/value list
\* (accumulated and own) is non-empty and well-formed.
C12_SetAttributesCount ==
  Len(SelectSeq(exported, LAMBDA x : x.op = "SetAttributes"))
    = Len(SelectSeq(calls, LAMBDA call :
            /\ EnabledLogCall(call)
            /\ call.given \o call.arg # <<>>
            /\ WellFormed(call.given \o call.arg)))

\* C13: when a spanLogger is not enabled at its verbosity, Info and Error
\* return before doing anything: the span gets no SetAttributes and no
\* RecordError call and no log record is written.
C13_DisabledLoggerDoesNothing ==
  /\ \A c \in 1..Len(calls) :
       (calls[c].op \in {"Info", "Error"} /\ ~EnabledLogCall(calls[c]))
         => calls[c].n = 0 /\ calls[c].ln = 0
  /\ (\A c \in 1..Len(calls) : ~EnabledLogCall(calls[c]))
       => exported = <<>> /\ logOut = <<>>

C13_Witness ==
  \E c \in 1..Len(calls) :
    /\ calls[c].op = "Error" /\ calls[c].arg # <<>> /\ calls[c].given # <<>>
    /\ slogs[calls[c].logger].log.level > slogs[calls[c].logger].log.upto
    /\ exported = <<>> /\ logOut = <<>>

\* The key/value list spanLogger i shows in store (s, a)
Shown(s, a, i) == SliceRead(a, s[i].kv)

\* Logger i is logger j or one it was derived from
RECURSIVE DerivedFrom(_, _)
DerivedFrom(j, i) == j # 0 /\ (j = i \/ DerivedFrom(slogs[j].from, i))

\* A step that is a call on spanLogger j leaves the list of j and of every
\* logger j was derived from as it was, and when the call is WithValues the
\* new logger shows the list of j followed by the new pairs
ParentListKept ==
  Len(calls') = Len(calls) + 1 =>
    LET call == calls'[Len(calls')]
    IN /\ \A i \in 1..Len(slogs) :
            DerivedFrom(call.logger, i)
              => Shown(slogs', arrays', i) = Shown(slogs, arrays, i)
       /\ call.op = "WithValues"
            => /\ Len(slogs') = Len(slogs) + 1
               /\ Shown(slogs', arrays', Len(slogs'))
                    = Shown(slogs, arrays, call.logger) \o call.arg

\* C14: WithValues returns a new logger whose accumulated list is the
\* parent's list followed by the new pairs, and the parent's list is the
\* same before and after, also after any later WithValues, Info or Error
\* call made on the child.
C14_ParentListUnchanged == [][ParentListKept]_vars

C14_Witness ==
  \E i, j \in 1..Len(slogs), c \in 1..Len(calls) :
    /\ slogs[j].from = i /\ slogs[i].kv.len > 0
    /\ slogs[j].kv.len > slogs[i].kv.len
    /\ slogs[j].kv.arr = slogs[i].kv.arr
    /\ calls[c].op = "Info" /\ calls[c].logger = j /\ calls[c].arg # <<>>
    /\ calls[c].n = 1

\* C15: no shared backing array is visible between loggers: the accumulated
\* key/value list a logger shows is exactly the one it was created with,
\* whatever WithValues, Info and Error calls were made on its parent and
\* siblings.
C15_NoSharedBackingArray ==
  \A i \in 1..Len(slogs) : SliceRead(arrays, slogs[i].kv) = slogs[i].given


\* The call after call c that the instrumented code made itself (the call
\* of the ErrRegisterFunc is made by End), 0 when c is the last
NextCall(c) ==
  LET later == {d \in (c + 1)..Len(calls) : calls[d].op # "ErrRegisterFunc"}
  IN IF later = {} THEN 0
     ELSE CHOOSE d \in later : \A d2 \in later : d <= d2

\* The operations call c reached on spans of a provider, and the log
\* records written during it: those from its start to the next call
CallExported(c) ==
  SubSeq(exported, calls[c].at,
         (IF NextCall(c) # 0 THEN calls[NextCall(c)].at ELSE Len(exported) + 1) - 1)

CallLogged(c) ==
  SubSeq(logOut, calls[c].lat,
         (IF NextCall(c) # 0 THEN calls[NextCall(c)].lat ELSE Len(logOut) + 1) - 1)

MutationOps == {"AddEvent", "SetName", "SetStatus", "SetAttributes", "RecordError"}

\* The message and the first key of the record a mutation is logged with
MutationMsg(op) ==
  CASE op = "AddEvent" -> "span event"
    [] op = "SetName" -> "span name change"
    [] op = "SetStatus" -> "span status change"
    [] op = "SetAttributes" -> "span attribute change"
    [] op = "RecordError" -> "span error"

MutationKey(call) ==
  CASE call.op = "AddEvent" -> spanEventKey
    [] call.op = "SetName" -> spanNameKey
    [] call.op = "SetStatus" -> spanStatusCodeKey
    [] call.op = "SetAttributes" -> SpanAttributePrefix \o call.arg[1].key
    [] call.op = "RecordError" -> "error"

\* The keys of the pairs a record carries after the values of its logger
RecordKeys(rec, log) ==
  [i \in 1..((Len(rec.kv) - Len(log.values)) \div 2) |->
     rec.kv[Len(log.values) + 2 * i - 1]]

\* Call c is a mutation mirrored one to one: the span of the provider gets
\* the same operation with the same arguments once (the no-op span shows
\* nothing), and the logger of the span, when it is enabled, writes one
\* record with the message and the key of the mutation; never more than one
MirroredOnce(c) ==
  LET call == calls[c]
      s == call.span
      ex == CallExported(c)
      lg == CallLogged(c)
  IN /\ Len(ex) = (IF spans[s].provider.kind = "sdk" THEN 1 ELSE 0)
     /\ \A k \in 1..Len(ex) :
          /\ ex[k].span = s /\ ex[k].tp = spans[s].provider
          /\ ex[k].op = call.op /\ ex[k].arg = call.arg
     /\ Len(lg) = (IF Enabled(spans[s].log) THEN 1 ELSE 0)
     /\ \A k \in 1..Len(lg) :
          /\ lg[k].span = s /\ lg[k].msg = MutationMsg(call.op)
          /\ RecordKeys(lg[k], spans[s].log)[1] = Str(MutationKey(call))
          /\ call.op = "SetAttributes" =>
               /\ Len(RecordKeys(lg[k], spans[s].log)) = Len(call.arg)
               /\ \A i \in 1..Len(call.arg) :
                    RecordKeys(lg[k], spans[s].log)[i]
                      = Str(SpanAttributePrefix \o call.arg[i].key)

\* C16: every mutation made through the loggingSpan (AddEvent, SetName,
\* SetStatus, SetAttributes, RecordError) writes exactly one log record with
\* the fixed key of that mutation and is delegated exactly once to the
\* underlying span; for SetAttributes each logged key is SpanAttributePrefix
\* followed by the original key, so N SetAttributes calls of one attribute
\* give exactly N "span attribute change" records, never zero and never
\* duplicated.  (The record is the one log call: a logger that is not
\* enabled at its level writes nothing for it.)
C16_MutationMirroredOnce ==
  /\ \A c \in 1..Len(calls) : calls[c].op \in MutationOps => MirroredOnce(c)
  /\ \A s \in SpanIds :
       Enabled(spans[s].log) =>
         Cardinality({i \in 1..Len(logOut) :
                        logOut[i].span = s /\ logOut[i].msg = "span attribute change"})
           = Cardinality({c \in 1..Len(calls) :
                            calls[c].span = s /\ calls[c].op = "SetAttributes"})

C16_Witness ==
  \E c1, c2, c3 \in 1..Len(calls) :
    /\ c1 < c2 /\ calls[c1].span = calls[c2].span /\ calls[c3].span = calls[c1].span
    /\ calls[c1].op = "SetAttributes" /\ calls[c2].op = "SetAttributes"
    /\ calls[c3].op = "RecordError"
    /\ Len(calls[c1].arg) = 1
    /\ spans[calls[c1].span].provider.kind = "sdk"
    /\ Enabled(spans[calls[c1].span].log)
    /\ Len(CallLogged(c1)) = 1 /\ Len(CallLogged(c2)) = 1 /\ Len(CallLogged(c3)) = 1
    /\ Len(CallExported(c1)) = 1 /\ Len(CallExported(c2)) = 1


\* The value record rec carries for key, as the set of values of the pairs
\* with that key
ValuesOf(rec, key) ==
  {rec.kv[2 * i] : i \in {j \in 1..(Len(rec.kv) \div 2) : rec.kv[2 * j - 1] = Str(key)}}

\* C17: the log record written for SetStatus(code, description) always
\* carries the status code, and carries the description if and only if the
\* code is Error: SetStatus(Ok, "desc") does not surface "desc" in the log
\* record, SetStatus(Error, "desc") does.
C17_StatusDescriptionOnlyOnError ==
  \A c \in 1..Len(calls) :
    calls[c].op = "SetStatus" =>
      \A k \in 1..Len(CallLogged(c)) :
        LET rec == CallLogged(c)[k]
            code == calls[c].arg[1]
            description == calls[c].arg[2]
        IN /\ rec.msg = "span status change"
           /\ ValuesOf(rec, spanStatusCodeKey) = {Str(code)}
           /\ code = "Error" =>
                ValuesOf(rec, spanStatusDescriptionKey) = {Str(description)}
           /\ code # "Error" =>
                /\ ValuesOf(rec, spanStatusDescriptionKey) = {}
                /\ \A i \in 1..Len(rec.kv) : rec.kv[i] # Str(description)

C17_Witness ==
  \E c1, c2 \in 1..Len(calls) :
    /\ calls[c1].op = "SetStatus" /\ calls[c1].arg = <<"Ok", "desc">>
    /\ calls[c2].op = "SetStatus" /\ calls[c2].arg = <<"Error", "desc">>
    /\ Len(CallLogged(c1)) = 1 /\ Len(CallLogged(c2)) = 1
    /\ Str("desc") \in ValuesOf(CallLogged(c2)[1], spanStatusDescriptionKey)
    /\ ValuesOf(CallLogged(c1)[1], spanStatusCodeKey) = {Str("Ok")}


\* The span operations and the log record of a call on the Logger of the
\* pair: SetAttributes with the projected key/values (and RecordError for
\* Error) on the span the tracer returned, and the one record of the call
\* itself; nothing when the logger is not enabled
LoggerCallMirrored(c) ==
  LET call == calls[c]
      s == call.span
      ex == CallExported(c)
      lg == CallLogged(c)
      ops == IF call.op = "Info" THEN <<"SetAttributes">>
             ELSE <<"SetAttributes", "RecordError">>
  IN /\ Len(lg) = (IF Enabled(spans[s].log) THEN 1 ELSE 0)
     /\ \A k \in 1..Len(lg) :
          /\ lg[k].span = s /\ lg[k].msg = "msg"
          /\ lg[k].kind = (IF call.op = "Info" THEN "info" ELSE "error")
     /\ Len(ex) = (IF Enabled(spans[s].log) /\ spans[s].provider.kind = "sdk"
                   THEN Len(ops) ELSE 0)
     /\ \A k \in 1..Len(ex) :
          /\ ex[k].span = s /\ ex[k].tp = spans[s].provider /\ ex[k].op = ops[k]
          /\ ex[k].op = "SetAttributes" => ex[k].arg = keysAndValuesToAttrs(call.arg)

\* End writes "ending span" and ends the span last; before that only the
\* ErrRegisterFunc acted, when an error variable was captured
EndMirrored(c) ==
  LET s == calls[c].span
      ex == CallExported(c)
      lg == CallLogged(c)
  IN /\ spans[s].provider.kind = "sdk" =>
          /\ ex # <<>> /\ ex[Len(ex)].op = "End"
          /\ \A k \in 1..(Len(ex) - 1) : ex[k].op # "End"
     /\ Enabled(spans[s].log) =>
          /\ lg # <<>> /\ lg[Len(lg)].msg = "ending span"
          /\ \A k \in 1..(Len(lg) - 1) : lg[k].msg # "ending span"
     /\ ~spans[s].err =>
          /\ Len(ex) = (IF spans[s].provider.kind = "sdk" THEN 1 ELSE 0)
          /\ Len(lg) = (IF Enabled(spans[s].log) THEN 1 ELSE 0)
     /\ Len(ex) <= 2 /\ Len(lg) <= 3

HandlerOps(errFn, err) ==
  IF errFn = "default"
  THEN (IF err # "nil" THEN <<"RecordError">> ELSE <<>>)
  ELSE (IF err = "known" THEN <<"AddEvent">> ELSE <<>>)

\* A step that is a call of End on a span: with a captured variable the
\* configured ErrRegisterFunc is called once, with the value the variable
\* holds in this step, before the span is ended; without, it is not called.
\* A step that is any other call does not call an ErrRegisterFunc.
EndRegistersError ==
  Len(calls') > Len(calls) =>
    LET n == Len(calls)
        call == calls'[n + 1]
        s == call.span
        ex == SubSeq(exported', Len(exported) + 1, Len(exported'))
    IN IF call.op = "End" /\ spans[s].err
       THEN /\ Len(calls') = n + 2
            /\ calls'[n + 2].op = "ErrRegisterFunc"
            /\ calls'[n + 2].span = s
            /\ calls'[n + 2].arg = <<spans[s].retErr>>
            /\ spans[s].provider.kind = "sdk" =>
                 [k \in 1..Len(ex) |-> ex[k].op]
                   = HandlerOps(spans[s].errFn, spans[s].retErr) \o <<"End">>
       ELSE /\ Len(calls') = n + 1
            /\ call.op # "ErrRegisterFunc"

\* C19: if Capture(&err) was registered on the builder, each End call on
\* the returned span invokes the configured ErrRegisterFunc exactly once,
\* with the value the captured variable holds when End runs (nil included,
\* whatever it held at Trace time); if Capture was not called, End never
\* invokes an ErrRegisterFunc.
C19_EndRegistersCapturedError == [][EndRegistersError]_vars

C19_Witness ==
  \E c1, c2 \in 1..Len(calls) :
    /\ c1 + 1 < c2 /\ c2 < Len(calls)
    /\ calls[c1].op = "End" /\ calls[c2].op = "End"
    /\ calls[c1].span = calls[c2].span
    /\ spans[calls[c1].span].err /\ spans[calls[c1].span].errFn = "event"
    /\ spans[calls[c1].span].provider.kind = "sdk"
    /\ calls[c1 + 1].op = "ErrRegisterFunc" /\ calls[c1 + 1].arg = <<"known">>
    /\ calls[c2 + 1].op = "ErrRegisterFunc" /\ calls[c2 + 1].arg = <<"nil">>
    /\ spans[calls[c1].span].retErr = "other"


\* The operations of a sequence of exported entries, the messages of a
\* sequence of log records
OpsOf(ex) == [k \in 1..Len(ex) |-> ex[k].op]
MsgsOf(lg) == [k \in 1..Len(lg) |-> lg[k].msg]

\* C20: DefaultErrRegisterFunc calls RecordError on the span if and only if
\* the error is non-nil; for a nil error it performs no span mutation, and
\* it never writes a log record directly through the logger it is given:
\* between the start of End and its "ending span" there is the RecordError
\* with its own "span error" record for a non-nil error, and nothing else.
C20_DefaultRecordsNonNilOnly ==
  \A d \in 1..Len(calls) :
    (calls[d].op = "ErrRegisterFunc" /\ spans[calls[d].span].errFn = "default") =>
      LET s == calls[d].span
          err == calls[d].arg[1]
          ex == CallExported(d)
          lg == CallLogged(d)
      IN /\ IF spans[s].provider.kind = "sdk"
            THEN /\ OpsOf(ex) = (IF err # "nil" THEN <<"RecordError">> ELSE <<>>)
                                  \o <<"End">>
                 /\ err # "nil" => ex[1].span = s /\ ex[1].arg = <<err>>
            ELSE ex = <<>>
         /\ IF Enabled(spans[s].log)
            THEN /\ MsgsOf(lg) = (IF err # "nil" THEN <<"span error">> ELSE <<>>)
                                   \o <<"ending span">>
                 /\ err # "nil" =>
                      /\ lg[1].kind = "error"
                      /\ lg[1].kv = spans[s].log.values \o <<Str("error"), Str(err)>>
            ELSE lg = <<>>

C20_Witness ==
  \E d1, d2 \in 1..Len(calls) :
    /\ calls[d1].op = "ErrRegisterFunc" /\ calls[d2].op = "ErrRegisterFunc"
    /\ calls[d1].span = calls[d2].span
    /\ spans[calls[d1].span].errFn = "default"
    /\ spans[calls[d1].span].provider.kind = "sdk"
    /\ Enabled(spans[calls[d1].span].log)
    /\ calls[d1].arg = <<"nil">> /\ calls[d2].arg = <<"other">>
    /\ OpsOf(CallExported(d1)) = <<"End">>
    /\ OpsOf(CallExported(d2)) = <<"RecordError", "End">>


\* The End call c in the order its parts ran: what the ErrRegisterFunc did
\* (span operations and log records) comes first, then the "ending span"
\* record, then End on the span of the tracer, which had seen every record
\* of the call by then
EndInOrder(c) ==
  LET s == calls[c].span
      ex == CallExported(c)
      lg == CallLogged(c)
      endingAt == calls[c].lat + Len(lg) - 1
  IN /\ spans[s].provider.kind = "sdk" =>
          /\ ex # <<>> /\ ex[Len(ex)].op = "End" /\ ex[Len(ex)].span = s
          /\ \A k \in 1..(Len(ex) - 1) : ex[k].op # "End"
     /\ Enabled(spans[s].log) =>
          /\ lg # <<>> /\ lg[Len(lg)].msg = "ending span" /\ lg[Len(lg)].span = s
          /\ \A k \in 1..(Len(lg) - 1) : lg[k].msg # "ending span"
     /\ (spans[s].provider.kind = "sdk" /\ Enabled(spans[s].log)) =>
          /\ ex[Len(ex)].logged = endingAt
          /\ \A k \in 1..(Len(ex) - 1) : ex[k].logged < endingAt

\* C21: within End, the error-capture handler runs strictly before the
\* "ending span" record is logged, and that record is logged before the
\* underlying span's End is called; every span or log side effect of the
\* handler therefore lands on the still-open span.
C21_HandlerThenLogThenEnd ==
  \A c \in 1..Len(calls) : calls[c].op = "End" => EndInOrder(c)

C21_Witness ==
  \E c \in 1..Len(calls) :
    /\ calls[c].op = "End" /\ c < Len(calls)
    /\ calls[c + 1].op = "ErrRegisterFunc" /\ calls[c + 1].arg = <<"known">>
    /\ spans[calls[c].span].errFn = "event"
    /\ OpsOf(CallExported(c)) = <<"AddEvent", "End">>
    /\ MsgsOf(CallLogged(c))
         = <<"span event", "manual entry about some operation error", "ending span">>


\* The messages the ErrRegisterFunc of span s writes for err
HandlerMsgs(s, err) ==
  IF spans[s].errFn = "default"
  THEN (IF err # "nil" THEN <<"span error">> ELSE <<>>)
  ELSE (IF err = "known"
        THEN <<"span event", "manual entry about some operation error">>
        ELSE <<>>)

\* The messages call c is to leave in the log, in the order of the code
CallMsgs(c) ==
  CASE calls[c].op = "Trace" -> <<"starting span">>
    [] calls[c].op \in MutationOps -> <<MutationMsg(calls[c].op)>>
    [] calls[c].op \in {"Info", "Error"} -> <<"msg">>
    [] calls[c].op = "End" ->
         (IF c < Len(calls) /\ calls[c + 1].op = "ErrRegisterFunc"
          THEN HandlerMsgs(calls[c].span, calls[c + 1].arg[1])
          ELSE <<>>) \o <<"ending span">>
    [] OTHER -> <<>>

\* The messages of the first n calls that were made on span s
RECURSIVE SpanMsgs(_, _)
SpanMsgs(s, n) ==
  IF n = 0 THEN <<>>
  ELSE SpanMsgs(s, n - 1) \o (IF calls[n].span = s THEN CallMsgs(n) ELSE <<>>)

\* The records of span s in the log stream
SpanRecords(s) ==
  LET OfSpan(rec) == rec.span = s
  IN SelectSeq(logOut, OfSpan)

\* The places of the records of span s with message msg
RecordsAt(s, msg) ==
  {i \in 1..Len(logOut) : logOut[i].span = s /\ logOut[i].msg = msg}

\* C22: in the log stream of any run the records of one span appear in the
\* order its methods were called; a span's "starting span" record precedes
\* the "starting span" record of each of its child spans; and a span's
\* "ending span" record comes after the records of all mutations made
\* before End and after the records written by its error-capture handler.
C22_LogOrder ==
  /\ \A s \in SpanIds :
       Enabled(spans[s].log) => MsgsOf(SpanRecords(s)) = SpanMsgs(s, Len(calls))
  /\ \A s \in SpanIds :
       ParentSpan(s) # 0 =>
         \A i \in RecordsAt(ParentSpan(s), "starting span"),
            j \in RecordsAt(s, "starting span") : i < j
  /\ \A c, m \in 1..Len(calls) :
       (calls[c].op = "End" /\ m < c /\ calls[m].span = calls[c].span
          /\ calls[m].op \in MutationOps /\ Enabled(spans[calls[c].span].log))
         => /\ calls[m].lat < calls[c].lat + Len(CallLogged(c)) - 1
            /\ logOut[calls[m].lat].msg = MutationMsg(calls[m].op)
            /\ logOut[calls[c].lat + Len(CallLogged(c)) - 1].msg = "ending span"

C22_Witness ==
  \E s1, s2 \in SpanIds, c, m \in 1..Len(calls) :
    /\ ParentSpan(s2) = s1
    /\ RecordsAt(s1, "starting span") # {} /\ RecordsAt(s2, "starting span") # {}
    /\ m < c /\ calls[m].span = s1 /\ calls[m].op = "AddEvent"
    /\ calls[c].span = s1 /\ calls[c].op = "End"
    /\ MsgsOf(SpanRecords(s1))
         = <<"starting span", "span event", "span error", "ending span">>


\* The global logger and the acquire function after the n-th write of
\* their Set function (0: the initial values)
LoggerAtWrite(n) == IF n = 0 THEN Discard ELSE reg.loggerSets[n]
FuncAtWrite(n) == IF n = 0 THEN "DefaultAcquireLoggerFunc" ELSE reg.funcSets[n]

\* C23: LoggerFromContext returns the result of the acquire function
\* registered at the time of the call (the one of the last
\* SetAcquireLoggerFunc before it locked the mutex, and no older than the
\* last one that had returned when the call started); with the default
\* acquire function that is the Logger carried by the context if there is
\* one, otherwise the global Logger, which is the discard logger until
\* SetGlobalLogger replaces it.
C23_LoggerFromContext ==
  \A i \in 1..Len(reg.done) :
    reg.done[i].op = "LoggerFromContext" =>
      LET d == reg.done[i]
          ctx == d.arg
      IN /\ d.fn = FuncAtWrite(d.seenFn) /\ d.floorFn <= d.seenFn
         /\ d.fn = "DefaultAcquireLoggerFunc" =>
              IF ctx.logger # NoLogger THEN d.ret = ctx.logger
              ELSE /\ d.ret = LoggerAtWrite(d.seenLog)
                   /\ d.floorLog <= d.seenLog
         /\ d.fn = "myAcquire" =>
              d.ret = (IF ctx.logger # NoLogger THEN ctx.logger ELSE StdLogger)

C23_Witness ==
  \E i, j \in 1..Len(reg.done) :
    /\ i < j
    /\ reg.done[i].op = "LoggerFromContext" /\ reg.done[j].op = "LoggerFromContext"
    /\ reg.done[i].arg = Background /\ reg.done[j].arg = Background
    /\ reg.done[i].fn = "DefaultAcquireLoggerFunc"
    /\ reg.done[j].fn = "DefaultAcquireLoggerFunc"
    /\ reg.done[i].ret = Discard /\ reg.done[j].ret = ZapLogger(0)
    /\ globalLogger = ZapLogger(0)


\* The provider of the span that is active in the context Trace call s was
\* started from: the provider of the span of the call around it, or for
\* an outermost call what the root context carries
ActiveSpanProvider(s) ==
  IF ParentSpan(s) # 0 THEN spans[ParentSpan(s)].provider
  ELSE ctxs[spans[s].parent].spanTp

\* C24: TracerProviderFromContext returns the TracerProvider of the span
\* currently active in the context when that provider is not a no-op, and
\* the global TracerProvider otherwise; for a context with no span it
\* returns the global provider, which is a no-op provider by default.
C24_TracerProviderFromContext ==
  \A s \in SpanIds :
    /\ ~IsNoop(ActiveSpanProvider(s)) => spans[s].resolved = ActiveSpanProvider(s)
    /\ IsNoop(ActiveSpanProvider(s)) => spans[s].resolved = globalTp
    /\ ctxs[spans[s].parent] = Background =>
         /\ spans[s].resolved = globalTp
         /\ globalTp.home # "global" => IsNoop(spans[s].resolved)

C24_Witness ==
  \E s1, s2, s3 \in SpanIds :
    /\ ParentSpan(s2) = s1 /\ ParentSpan(s3) = s2
    /\ ~IsNoop(spans[s1].provider) /\ spans[s2].resolved = spans[s1].provider
    /\ IsNoop(spans[s2].provider)
    /\ spans[s3].resolved = globalTp /\ ~IsNoop(globalTp)
    /\ globalTp # spans[s1].provider


\* The goroutines inside the critical section of mutex m
Inside(m) ==
  {p \in Procs :
     \E k \in 1..Len(reg.procs[p]) :
       /\ reg.procs[p][k].op \in LockingOps /\ MutexOf(reg.procs[p][k].op) = m
       /\ reg.procs[p][k].pc # "lock"}

\* At most one goroutine is inside a critical section, the one that holds
\* the mutex
MutualExclusion ==
  \A m \in Mutexes :
    /\ Cardinality(Inside(m)) <= 1
    /\ \A p \in Inside(m) : reg.mu[m] = p

\* A step that changes logger or acquireLoggerFunc is a step of the
\* goroutine that holds the mutex of that variable
WritesUnderMutex ==
  /\ globalLogger' # globalLogger =>
       /\ reg.mu["loggerMu"] # 0
       /\ Top(reg, reg.mu["loggerMu"]).op = "SetGlobalLogger"
       /\ reg'.procs[reg.mu["loggerMu"]] # reg.procs[reg.mu["loggerMu"]]
  /\ reg'.acquireLoggerFunc # reg.acquireLoggerFunc =>
       /\ reg.mu["acquireLoggerFuncMu"] # 0
       /\ Top(reg, reg.mu["acquireLoggerFuncMu"]).op = "SetAcquireLoggerFunc"
       /\ reg'.procs[reg.mu["acquireLoggerFuncMu"]]
            # reg.procs[reg.mu["acquireLoggerFuncMu"]]

\* Every read that returned gave the initial value or a value given to a
\* Set, and not one older than the last Set that had returned when the
\* read started
ReadsSeeSets ==
  \A i \in 1..Len(reg.done) :
    LET d == reg.done[i]
    IN /\ d.op = "GetGlobalLogger" =>
            /\ d.ret = LoggerAtWrite(d.seenLog)
            /\ d.floorLog <= d.seenLog /\ d.seenLog <= Len(reg.loggerSets)
            /\ d.ret \in {Discard} \cup RegLoggers
       /\ d.op = "LoggerFromContext" =>
            /\ d.fn = FuncAtWrite(d.seenFn)
            /\ d.floorFn <= d.seenFn /\ d.seenFn <= Len(reg.funcSets)

\* Goroutine p waits for a mutex that is locked
Waiting(p) ==
  /\ reg.procs[p] # <<>> /\ Top(reg, p).pc = "lock"
  /\ reg.mu[MutexOf(Top(reg, p).op)] # 0

\* Some goroutines wait for mutexes that only goroutines among them hold
Deadlocked ==
  \E S \in (SUBSET Procs) \ {{}} :
    \A p \in S : Waiting(p) /\ reg.mu[MutexOf(Top(reg, p).op)] \in S

\* Only the default acquire function was ever registered
DefaultAcquireOnly ==
  \A i \in 1..Len(reg.funcSets) : reg.funcSets[i] = "DefaultAcquireLoggerFunc"

\* C25: the global Logger and the global acquire function are only read
\* and written under their mutex: under any interleaving of concurrent
\* GetGlobalLogger, SetGlobalLogger, SetAcquireLoggerFunc and
\* LoggerFromContext calls, every read returns the initial default or a
\* value given to some Set, a read that starts after a Set has returned
\* sees that value or a later one, and with the default acquire function no
\* interleaving deadlocks.
C25_RegistryUnderMutex ==
  /\ [](MutualExclusion /\ ReadsSeeSets /\ (DefaultAcquireOnly => ~Deadlocked))
  /\ [][WritesUnderMutex]_vars

C25_Witness ==
  \E i, j \in 1..Len(reg.done) :
    /\ DefaultAcquireOnly
    /\ reg.done[i].op = "GetGlobalLogger"
    /\ reg.done[i].floorLog = 0 /\ reg.done[i].seenLog = 1
    /\ reg.done[i].ret = reg.loggerSets[1]
    /\ reg.done[j].op = "LoggerFromContext" /\ reg.done[j].arg = Background
    /\ reg.done[j].seenLog = 1 /\ reg.done[j].ret = reg.loggerSets[1]


\* C30: LoggerFromContext returns for every registered acquire function
\* that itself returns, including an acquire function that calls
\* LoggerFromContext, Trace or SetAcquireLoggerFunc from inside its body; no
\* sequence of calls leaves the acquire-function mutex or the global-logger
\* mutex held forever: no goroutine ever waits for a mutex that can no more
\* be unlocked.
C30_AcquireFuncMayCallBack == ~Deadlocked

\* The upstreams of a built provider that implement an operation
Supporting(ups, op) == {i \in 1..Len(ups) : ups[i][op] # "none"}

Latest(S) == CHOOSE i \in S : \A j \in S : j <= i

\* C26: Shutdown and ForceFlush on a composite provider return the error of
\* the wrapped provider's own method when it has one, else that of the
\* underlying provider, and nil with no method run when no provider
\* supports the operation; the error is the backend's own and exactly one
\* backend method runs, once.
C26_ShutdownAndForceFlush ==
  fn.op = "out" /\ fn.call \in SdkOps =>
    LET S == Supporting(fn.ups, fn.call) IN
      IF S = {} THEN fn.out = [ret |-> "nil", called |-> <<>>]
      ELSE fn.out = [ret |-> fn.ups[Latest(S)][fn.call],
                     called |-> <<Latest(S)>>]

\* A Shutdown that the wrapped provider lacks returned the underlying
\* provider's error
C26_Witness ==
  /\ fn.op = "out"
  /\ fn.call = "Shutdown"
  /\ Len(fn.ups) = 2
  /\ fn.ups[2].Shutdown = "none"
  /\ fn.ups[1].Shutdown = "errA"
  /\ fn.out = [ret |-> "errA", called |-> <<1>>]

\* The name the two names of a Trace call are to give
NameOf(tName, fnName) ==
  IF tName # "" /\ fnName # "" THEN tName \o "." \o fnName
  ELSE IF tName # "" THEN tName
  ELSE IF fnName # "" THEN fnName
  ELSE "<unnamed_span>"

\* C27: fmtSpanName(tracerName, fnName) is tracerName.fnName when both are
\* non-empty, the non-empty one when exactly one is, and "<unnamed_span>"
\* when both are empty; the span a Trace call starts and the logger it
\* returns are both named with this value.
C27_SpanAndLoggerName ==
  \A k \in 1..Len(calls) :
    calls[k].op = "Trace" =>
      LET s == calls[k].span
          n == NameOf(tracerName(calls[k].actor), calls[k].fnName)
      IN /\ fmtSpanName(tracerName(calls[k].actor), calls[k].fnName) = n
         /\ spans[s].provider.kind = "sdk" =>
              /\ calls[k].at <= Len(exported)
              /\ exported[calls[k].at].op = "Start"
              /\ exported[calls[k].at].span = s
              /\ exported[calls[k].at].name = n
         /\ spans[s].logger.kind = "zap" =>
              spans[s].log.name = spans[s].logger.name \o
                                    (IF spans[s].logger.name = "" THEN "" ELSE ".") \o n
         /\ spans[s].logger.kind # "zap" => spans[s].log = spans[s].logger
         /\ Enabled(spans[s].log) =>
              /\ calls[k].lat <= Len(logOut)
              /\ logOut[calls[k].lat].span = s
              /\ logOut[calls[k].lat].msg = "starting span"
              /\ logOut[calls[k].lat].logger = n

\* An unnamed actor's unnamed function and a named actor's named function,
\* both exported and logged
C27_Witness ==
  \E k, l \in 1..Len(calls) :
    /\ calls[k].op = "Trace" /\ calls[l].op = "Trace"
    /\ calls[k].actor = "" /\ calls[k].fnName = ""
    /\ calls[l].actor = "Tracer" /\ calls[l].fnName = "Func"
    /\ \E i, j \in 1..Len(exported) :
         /\ exported[i].op = "Start" /\ exported[i].span = calls[k].span
         /\ exported[i].name = "<unnamed_span>"
         /\ exported[j].op = "Start" /\ exported[j].span = calls[l].span
         /\ exported[j].name = "Tracer.Func"
    /\ \E i, j \in 1..Len(logOut) :
         /\ logOut[i].span = calls[k].span /\ logOut[i].logger = "<unnamed_span>"
         /\ logOut[j].span = calls[l].span /\ logOut[j].logger = "Tracer.Func"

\* The logger of a Trace call that spanLogger i was derived from
RECURSIVE RootOf(_)
RootOf(i) == IF slogs[i].from = 0 THEN i ELSE RootOf(slogs[i].from)

\* The operations call k made on spans
ChainOps(k) == calls[k].at .. (calls[k].at + calls[k].n - 1)

\* C28: every logger derived from the logger a Trace call returned through
\* a chain of V, WithValues and WithName wraps the span of that call: an
\* enabled Info or Error on it sets attributes on that span, and no call
\* sets anything on another span.
C28_SameSpan ==
  /\ \A i \in 1..Len(slogs) : slogs[i].span = slogs[RootOf(i)].span
  /\ \A k \in 1..Len(calls) :
       LET i == calls[k].logger
           s == slogs[RootOf(i)].span
       IN /\ calls[k].op \in {"V", "WithValues", "WithName"} => calls[k].n = 0
          /\ calls[k].op \in {"Info", "Error"} /\ Enabled(slogs[i].log) =>
               /\ calls[k].n >= 1
               /\ exported[calls[k].at].op = "SetAttributes"
          /\ \A j \in ChainOps(k) : exported[j].span = s
  /\ \A j \in 1..Len(exported) : \E k \in 1..Len(calls) : j \in ChainOps(k)

\* A logger two steps away from the second Trace call's logger set
\* attributes on the second span, the first call's logger on the first
\* span
C28_Witness ==
  /\ Len(slogs) = 4
  /\ slogs[3].from = 2 /\ slogs[4].from = 3
  /\ \E k, l \in 1..Len(calls) :
       /\ calls[k].op = "Info" /\ calls[k].logger = 4 /\ calls[k].n = 1
       /\ exported[calls[k].at].op = "SetAttributes"
       /\ exported[calls[k].at].span = 2
       /\ calls[l].op = "Error" /\ calls[l].logger = 1 /\ calls[l].n = 2
       /\ exported[calls[l].at].span = 1

\* C29: a TracerProvider attached to the root context with
\* ContextBuilder.WithTracerProvider is the provider every Trace call in
\* the context tree below resolves, also below a span that was disabled
\* and replaced by a no-op span: a new-root span started under a disabled
\* span is created by the context's provider, not by the global one.
C29_ContextProviderBelow ==
  ctxs[1].spanTp.home = "ctx" =>
    \A s \in SpanIds : spans[s].resolved = ctxs[1].spanTp

====
